---- MODULE Spec2Model ----
(***************************************************************************)
(* A model of the spill-incident cleaning pipeline of                      *)
(* src/src/data_processing.py (class SpillDataProcessor).                  *)
(*                                                                         *)
(* Text is a sequence of one-character strings, so that substring tests,   *)
(* upper-casing, stripping and number parsing are computed character by    *)
(* character as Python computes them.  A float is a fixed-point integer:   *)
(* a quantity, hour or year x is the integer x * QScale, and a             *)
(* total_quantity_equivalent x is x * TScale (the coefficients 7.48 and    *)
(* 0.12 need two more decimals).  Floating-point rounding is not modelled. *)
(***************************************************************************)
EXTENDS Integers, Sequences, FiniteSets, TLC

\* ------------------------------------------------------------------ bounds

\* Longest quantity cell enumerated character by character.
MaxCellLen == 3
\* Most vocabulary fragments appended to a free-text argument.
MaxFrags == 2
\* Most rows of a file whose rows differ in every kind of cell.
MaxRows == 2
\* Most rows of a file whose rows differ in release date and gallons only.
MaxLongRows == 4
\* Rows of a file the report is made of.
MaxReportRows == 3
\* Rows of a file process_all is run on twice.
MaxRerunRows == 2

\* ------------------------------------------------------------------- cells

\* A missing value (NaN / None / NaT).
Null == [t |-> "null"]
\* A Python str.
Str(chars) == [t |-> "s", s |-> chars]
\* A float, in fixed point (see the header).
Num(n) == [t |-> "n", n |-> n]
\* One of the fixed labels the code returns.
Lab(l) == [t |-> "l", l |-> l]

\* pd.isna
isna(cell) == cell.t = "null"

RECURSIVE Pow10(_)
Pow10(k) == IF k = 0 THEN 1 ELSE 10 * Pow10(k - 1)

\* One unit of a quantity, hour or year is 1/QScale: three decimals, which is
\* every decimal the quantity cells of the model carry.
QScale == Pow10(3)
\* One unit of total_quantity_equivalent.
TScale == 100 * QScale

\* --------------------------------------------------------------- characters

LowerLetters ==
    <<"a","b","c","d","e","f","g","h","i","j","k","l","m",
      "n","o","p","q","r","s","t","u","v","w","x","y","z">>
UpperLetters ==
    <<"A","B","C","D","E","F","G","H","I","J","K","L","M",
      "N","O","P","Q","R","S","T","U","V","W","X","Y","Z">>
Digits == <<"0","1","2","3","4","5","6","7","8","9">>

IsDigit(c) == \E i \in 1..10 : Digits[i] = c
DigitVal(c) == (CHOOSE i \in 1..10 : Digits[i] = c) - 1

\* str.upper, one character
UpperChar(c) ==
    IF \E i \in 1..26 : LowerLetters[i] = c
    THEN UpperLetters[CHOOSE i \in 1..26 : LowerLetters[i] = c]
    ELSE c
\* str.lower, one character
LowerChar(c) ==
    IF \E i \in 1..26 : UpperLetters[i] = c
    THEN LowerLetters[CHOOSE i \in 1..26 : UpperLetters[i] = c]
    ELSE c

\* A sequence given as a function on 1..n, as a tuple: TLC then holds its
\* elements instead of recomputing them at every use.
AsTuple(f, n) == SubSeq(f, 1, n)

\* str.upper
upper(s) == AsTuple([i \in 1..Len(s) |-> UpperChar(s[i])], Len(s))

\* Python's `kw in s` on two strings
In(kw, s) ==
    \E i \in 0..(Len(s) - Len(kw)) :
        \A j \in 1..Len(kw) : s[i + j] = kw[j]

\* any(kw in s for kw in kws)
AnyIn(kws, s) == \E k \in 1..Len(kws) : In(kws[k], s)

\* str.strip: leading and trailing blanks removed
RECURSIVE lstrip(_)
lstrip(s) == IF s # <<>> /\ Head(s) = " " THEN lstrip(Tail(s)) ELSE s
RECURSIVE rstrip(_)
rstrip(s) ==
    IF s # <<>> /\ s[Len(s)] = " " THEN rstrip(SubSeq(s, 1, Len(s) - 1)) ELSE s
strip(s) == rstrip(lstrip(s))

\* ------------------------------------------------------- str() of a float

RECURSIVE IntDigits(_)
IntDigits(n) ==
    IF n < 10 THEN <<Digits[n + 1]>>
    ELSE IntDigits(n \div 10) \o <<Digits[(n % 10) + 1]>>

RECURSIVE FracDigits(_)
FracDigits(f) ==
    IF f = 0 THEN <<>>
    ELSE <<Digits[((f * 10) \div QScale) + 1]>> \o FracDigits((f * 10) % QScale)

\* str(x) of a float x = n / QScale in the positional range (1e-4 <= |x| < 1e16),
\* e.g. 1250.0 -> '1250.0', -0.5 -> '-0.5'
ReprNum(n) ==
    LET a == IF n < 0 THEN -n ELSE n
        fr == a % QScale
    IN  (IF n < 0 THEN <<"-">> ELSE <<>>)
        \o IntDigits(a \div QScale) \o <<".">>
        \o (IF fr = 0 THEN <<"0">> ELSE FracDigits(fr))

\* str(cell): str(x) of a str is x, of NaN is 'nan'
StrOf(cell) ==
    CASE cell.t = "s" -> cell.s
      [] cell.t = "n" -> ReprNum(cell.n)
      [] cell.t = "null" -> <<"n","a","n">>

\* ------------------------------------------------------ keyword categories

PetroleumKeywords ==
    << <<"G","A","S","O","L","I","N","E">>,
       <<"D","I","E","S","E","L">>,
       <<"F","U","E","L">>,
       <<"O","I","L">>,
       <<"P","E","T","R","O","L","E","U","M">>,
       <<"H","Y","D","R","A","U","L","I","C">> >>
ChemicalKeywords ==
    << <<"C","H","E","M","I","C","A","L">>,
       <<"A","C","I","D">>,
       <<"S","O","L","V","E","N","T">>,
       <<"P","A","I","N","T">> >>
WasteKeywords ==
    << <<"W","A","S","T","E">>,
       <<"S","E","W","A","G","E">> >>

\* _categorize_substance without the pd.isna test of lines 195-196: str(nan)
\* is 'nan', which holds no keyword.
_categorize_substance_without_isna(substance) ==
    LET s == upper(StrOf(substance))
    IN  IF AnyIn(PetroleumKeywords, s) THEN "Petroleum Products"
        ELSE IF AnyIn(ChemicalKeywords, s) THEN "Chemicals"
        ELSE IF AnyIn(WasteKeywords, s) THEN "Waste Products"
        ELSE "Other"

\* _categorize_substance with the Chemicals test moved ahead of the
\* Petroleum test.
_categorize_substance_chemicals_first(substance) ==
    IF isna(substance) THEN "Unknown"
    ELSE LET s == upper(StrOf(substance))
         IN  IF AnyIn(ChemicalKeywords, s) THEN "Chemicals"
             ELSE IF AnyIn(PetroleumKeywords, s) THEN "Petroleum Products"
             ELSE IF AnyIn(WasteKeywords, s) THEN "Waste Products"
             ELSE "Other"

_categorize_substance(substance) ==
    IF isna(substance) THEN "Unknown"
    ELSE LET s == upper(StrOf(substance))
         IN  IF AnyIn(PetroleumKeywords, s) THEN "Petroleum Products"
             ELSE IF AnyIn(ChemicalKeywords, s) THEN "Chemicals"
             ELSE IF AnyIn(WasteKeywords, s) THEN "Waste Products"
             ELSE "Other"

\* _categorize_cause with the Equipment Failure test moved ahead of the
\* Motor Vehicle Accident test.
_categorize_cause_equipment_first(cause) ==
    IF isna(cause) THEN "Unknown"
    ELSE LET c == upper(StrOf(cause))
         IN  IF \/ In(<<"E","Q","U","I","P","M","E","N","T">>, c)
                \/ In(<<"F","A","I","L","U","R","E">>, c)
                \/ In(<<"M","E","C","H","A","N","I","C","A","L">>, c)
             THEN "Equipment Failure"
             ELSE IF \/ In(<<"M","V">>, c)
                     \/ In(<<"M","O","T","O","R"," ","V","E","H","I","C","L","E">>, c)
                     \/ In(<<"A","C","C","I","D","E","N","T">>, c)
             THEN "Motor Vehicle Accident"
             ELSE IF \/ In(<<"H","U","M","A","N">>, c)
                     \/ In(<<"O","P","E","R","A","T","O","R">>, c)
                     \/ In(<<"E","R","R","O","R">>, c)
             THEN "Human Error"
             ELSE IF \/ In(<<"W","E","A","T","H","E","R">>, c)
                     \/ In(<<"N","A","T","U","R","A","L">>, c)
             THEN "Natural Causes"
             ELSE "Other"

_categorize_cause(cause) ==
    IF isna(cause) THEN "Unknown"
    ELSE LET c == upper(StrOf(cause))
         IN  IF \/ In(<<"M","V">>, c)
                \/ In(<<"M","O","T","O","R"," ","V","E","H","I","C","L","E">>, c)
                \/ In(<<"A","C","C","I","D","E","N","T">>, c)
             THEN "Motor Vehicle Accident"
             ELSE IF \/ In(<<"E","Q","U","I","P","M","E","N","T">>, c)
                     \/ In(<<"F","A","I","L","U","R","E">>, c)
                     \/ In(<<"M","E","C","H","A","N","I","C","A","L">>, c)
             THEN "Equipment Failure"
             ELSE IF \/ In(<<"H","U","M","A","N">>, c)
                     \/ In(<<"O","P","E","R","A","T","O","R">>, c)
                     \/ In(<<"E","R","R","O","R">>, c)
             THEN "Human Error"
             ELSE IF \/ In(<<"W","E","A","T","H","E","R">>, c)
                     \/ In(<<"N","A","T","U","R","A","L">>, c)
             THEN "Natural Causes"
             ELSE "Other"

\* ------------------------------------------------------------------ regions

eastern_towns ==
    << <<"G","R","O","T","O","N">>,
       <<"N","E","W"," ","L","O","N","D","O","N">>,
       <<"W","A","T","E","R","F","O","R","D">>,
       <<"M","O","N","T","V","I","L","L","E">>,
       <<"L","E","B","A","N","O","N">> >>
western_towns ==
    << <<"S","T","A","M","F","O","R","D">>,
       <<"N","O","R","W","A","L","K">>,
       <<"D","A","N","B","U","R","Y">>,
       <<"B","R","I","D","G","E","P","O","R","T">>,
       <<"W","E","S","T","P","O","R","T">> >>
central_towns ==
    << <<"H","A","R","T","F","O","R","D">>,
       <<"N","E","W"," ","B","R","I","T","A","I","N">>,
       <<"M","I","D","D","L","E","T","O","W","N">>,
       <<"M","E","R","I","D","E","N">> >>
northern_towns ==
    << <<"E","N","F","I","E","L","D">>,
       <<"W","I","N","D","S","O","R">>,
       <<"M","A","N","C","H","E","S","T","E","R">>,
       <<"V","E","R","N","O","N">> >>
southern_towns ==
    << <<"N","E","W"," ","H","A","V","E","N">>,
       <<"M","I","L","F","O","R","D">>,
       <<"W","E","S","T"," ","H","A","V","E","N">>,
       <<"G","U","I","L","F","O","R","D">> >>

\* _assign_region with the western list tried ahead of the eastern list.
_assign_region_western_first(town) ==
    IF isna(town) THEN "Unknown"
    ELSE LET tn == upper(StrOf(town))
         IN  IF AnyIn(western_towns, tn) THEN "Western Connecticut"
             ELSE IF AnyIn(eastern_towns, tn) THEN "Eastern Connecticut"
             ELSE IF AnyIn(central_towns, tn) THEN "Central Connecticut"
             ELSE IF AnyIn(northern_towns, tn) THEN "Northern Connecticut"
             ELSE IF AnyIn(southern_towns, tn) THEN "Southern Connecticut"
             ELSE "Other Connecticut"

\* _assign_region that takes the text 'Unknown' for a missing town.
_assign_region_unknown_text_as_null(town) ==
    IF isna(town) \/ upper(StrOf(town)) = <<"U","N","K","N","O","W","N">>
    THEN "Unknown"
    ELSE LET tn == upper(StrOf(town))
         IN  IF AnyIn(eastern_towns, tn) THEN "Eastern Connecticut"
             ELSE IF AnyIn(western_towns, tn) THEN "Western Connecticut"
             ELSE IF AnyIn(central_towns, tn) THEN "Central Connecticut"
             ELSE IF AnyIn(northern_towns, tn) THEN "Northern Connecticut"
             ELSE IF AnyIn(southern_towns, tn) THEN "Southern Connecticut"
             ELSE "Other Connecticut"

_assign_region(town) ==
    IF isna(town) THEN "Unknown"
    ELSE LET tn == upper(StrOf(town))
         IN  IF AnyIn(eastern_towns, tn) THEN "Eastern Connecticut"
             ELSE IF AnyIn(western_towns, tn) THEN "Western Connecticut"
             ELSE IF AnyIn(central_towns, tn) THEN "Central Connecticut"
             ELSE IF AnyIn(northern_towns, tn) THEN "Northern Connecticut"
             ELSE IF AnyIn(southern_towns, tn) THEN "Southern Connecticut"
             ELSE "Other Connecticut"

\* ------------------------------------------------------------- time period

\* _categorize_time_period with the upper ends of the buckets closed
\* (hour <= 12, hour <= 18) instead of open.
_categorize_time_period_closed_upper(hour) ==
    IF isna(hour) THEN "Unknown"
    ELSE IF 6 * QScale <= hour.n /\ hour.n <= 12 * QScale
         THEN "Morning (06:00-12:00)"
    ELSE IF 12 * QScale <= hour.n /\ hour.n <= 18 * QScale
         THEN "Afternoon (12:00-18:00)"
    ELSE IF 18 * QScale <= hour.n /\ hour.n < 24 * QScale
         THEN "Evening (18:00-24:00)"
    ELSE "Night (00:00-06:00)"

_categorize_time_period(hour) ==
    IF isna(hour) THEN "Unknown"
    ELSE IF 6 * QScale <= hour.n /\ hour.n < 12 * QScale
         THEN "Morning (06:00-12:00)"
    ELSE IF 12 * QScale <= hour.n /\ hour.n < 18 * QScale
         THEN "Afternoon (12:00-18:00)"
    ELSE IF 18 * QScale <= hour.n /\ hour.n < 24 * QScale
         THEN "Evening (18:00-24:00)"
    ELSE "Night (00:00-06:00)"

\* ------------------------------------------------------- quantity cleaning

\* .str.replace(r'[^\d.]', '', regex=True): only digits and '.' are kept
RECURSIVE KeepDigitsAndDots(_)
KeepDigitsAndDots(s) ==
    IF s = <<>> THEN <<>>
    ELSE IF IsDigit(Head(s)) \/ Head(s) = "."
         THEN <<Head(s)>> \o KeepDigitsAndDots(Tail(s))
         ELSE KeepDigitsAndDots(Tail(s))

RECURSIVE DigitsValue(_)
DigitsValue(s) ==
    IF s = <<>> THEN 0
    ELSE 10 * DigitsValue(SubSeq(s, 1, Len(s) - 1)) + DigitVal(s[Len(s)])

\* pd.to_numeric(errors='coerce') of a string of digits and dots: NaN for
\* the empty string, a lone dot, or more than one dot
to_numeric(s) ==
    LET dots == {i \in 1..Len(s) : s[i] = "."}
    IN  IF Cardinality(dots) > 1 \/ Len(s) = Cardinality(dots) THEN Null
        ELSE IF dots = {} THEN Num(DigitsValue(s) * QScale)
        ELSE LET d  == CHOOSE i \in dots : TRUE
                 ip == SubSeq(s, 1, d - 1)
                 fp == SubSeq(s, d + 1, Len(s))
             IN  Num(DigitsValue(ip) * QScale
                     + (DigitsValue(fp) * QScale) \div Pow10(Len(fp)))

\* fillna(value)
fillna(cell, value) == IF isna(cell) THEN value ELSE cell

\* The quantity cleaning with the character deletion of line 150 left out
\* for cells that are numbers already.
CleanQuantityCell_numbers_untouched(cell) ==
    IF cell.t = "n" THEN cell
    ELSE fillna(to_numeric(KeepDigitsAndDots(StrOf(cell))), Num(0))

\* The quantity cleaning without the fillna(0) of line 154.
CleanQuantityCell_without_fillna(cell) ==
    to_numeric(KeepDigitsAndDots(StrOf(cell)))

\* lines 150-154 on one cell of a quantity column
CleanQuantityCell(cell) ==
    fillna(to_numeric(KeepDigitsAndDots(StrOf(cell))), Num(0))

\* ------------------------------------------------------------ column names

\* The rename table with one more entry, whose key is the canonical name
\* another entry produces.
column_mapping_chained ==
    { <<"Case No.", "case_number">>,
      <<"Date Reported Time Reported", "date_reported">>,
      <<"Release date and time", "release_datetime">>,
      <<"Town of Release", "town">>,
      <<"State of Release", "state">>,
      <<"state", "status">>,
      <<"Responsibile Party/Discharger", "responsible_party">>,
      <<"Responsible Party Address", "responsible_party_address">>,
      <<"Responsible Party Town", "responsible_party_town">>,
      <<"Responsible Party State", "responsible_party_state">>,
      <<"Responsible Party Zip", "responsible_party_zip">>,
      <<"Responsible Party Accepts Responsibility (Y/N)", "accepts_responsibility">>,
      <<"Release Type", "release_type">>,
      <<"Location Of Reported Release", "release_location">>,
      <<"Release Substance", "substance">>,
      <<"Total Quantity Gallons", "quantity_gallons">>,
      <<"Total Quantity Yards", "quantity_yards">>,
      <<"Total Quantity Feet", "quantity_feet">>,
      <<"Total Quantity Drums", "quantity_drums">>,
      <<"Total Quantity Pounds", "quantity_pounds">>,
      <<"Emergency Measures", "emergency_measures">>,
      <<"Type of Waterbody Affected", "waterbody_type">>,
      <<"Waterbodies Affected", "waterbodies_affected">>,
      <<"Corrective Actions Taken", "corrective_actions">>,
      <<"Cause Info", "cause">>,
      <<"Media Info", "media">>,
      <<"Assigned to", "assigned_to">>,
      <<"Reported By", "reported_by">>,
      <<"Representing", "representing">>,
      <<"Status", "status">> }

\* column_mapping of clean_column_names: raw header -> canonical name
column_mapping ==
    { <<"Case No.", "case_number">>,
      <<"Date Reported Time Reported", "date_reported">>,
      <<"Release date and time", "release_datetime">>,
      <<"Town of Release", "town">>,
      <<"State of Release", "state">>,
      <<"Responsibile Party/Discharger", "responsible_party">>,
      <<"Responsible Party Address", "responsible_party_address">>,
      <<"Responsible Party Town", "responsible_party_town">>,
      <<"Responsible Party State", "responsible_party_state">>,
      <<"Responsible Party Zip", "responsible_party_zip">>,
      <<"Responsible Party Accepts Responsibility (Y/N)", "accepts_responsibility">>,
      <<"Release Type", "release_type">>,
      <<"Location Of Reported Release", "release_location">>,
      <<"Release Substance", "substance">>,
      <<"Total Quantity Gallons", "quantity_gallons">>,
      <<"Total Quantity Yards", "quantity_yards">>,
      <<"Total Quantity Feet", "quantity_feet">>,
      <<"Total Quantity Drums", "quantity_drums">>,
      <<"Total Quantity Pounds", "quantity_pounds">>,
      <<"Emergency Measures", "emergency_measures">>,
      <<"Type of Waterbody Affected", "waterbody_type">>,
      <<"Waterbodies Affected", "waterbodies_affected">>,
      <<"Corrective Actions Taken", "corrective_actions">>,
      <<"Cause Info", "cause">>,
      <<"Media Info", "media">>,
      <<"Assigned to", "assigned_to">>,
      <<"Reported By", "reported_by">>,
      <<"Representing", "representing">>,
      <<"Status", "status">> }

\* How each column name of the model is spelled.  Names are interned as
\* strings; the character-level renaming below works on their spelling.
Spelling ==
    { <<"Case No.", <<"C","a","s","e"," ","N","o",".">>>>,
      <<"case_number", <<"c","a","s","e","_","n","u","m","b","e","r">>>>,
      <<"Date Reported Time Reported", <<"D","a","t","e"," ","R","e","p","o","r","t","e","d"," ","T","i","m","e"," ","R","e","p","o","r","t","e","d">>>>,
      <<"date_reported", <<"d","a","t","e","_","r","e","p","o","r","t","e","d">>>>,
      <<"Release date and time", <<"R","e","l","e","a","s","e"," ","d","a","t","e"," ","a","n","d"," ","t","i","m","e">>>>,
      <<"release_datetime", <<"r","e","l","e","a","s","e","_","d","a","t","e","t","i","m","e">>>>,
      <<"Town of Release", <<"T","o","w","n"," ","o","f"," ","R","e","l","e","a","s","e">>>>,
      <<"town", <<"t","o","w","n">>>>,
      <<"State of Release", <<"S","t","a","t","e"," ","o","f"," ","R","e","l","e","a","s","e">>>>,
      <<"state", <<"s","t","a","t","e">>>>,
      <<"Responsibile Party/Discharger", <<"R","e","s","p","o","n","s","i","b","i","l","e"," ","P","a","r","t","y","/","D","i","s","c","h","a","r","g","e","r">>>>,
      <<"responsible_party", <<"r","e","s","p","o","n","s","i","b","l","e","_","p","a","r","t","y">>>>,
      <<"Responsible Party Address", <<"R","e","s","p","o","n","s","i","b","l","e"," ","P","a","r","t","y"," ","A","d","d","r","e","s","s">>>>,
      <<"responsible_party_address", <<"r","e","s","p","o","n","s","i","b","l","e","_","p","a","r","t","y","_","a","d","d","r","e","s","s">>>>,
      <<"Responsible Party Town", <<"R","e","s","p","o","n","s","i","b","l","e"," ","P","a","r","t","y"," ","T","o","w","n">>>>,
      <<"responsible_party_town", <<"r","e","s","p","o","n","s","i","b","l","e","_","p","a","r","t","y","_","t","o","w","n">>>>,
      <<"Responsible Party State", <<"R","e","s","p","o","n","s","i","b","l","e"," ","P","a","r","t","y"," ","S","t","a","t","e">>>>,
      <<"responsible_party_state", <<"r","e","s","p","o","n","s","i","b","l","e","_","p","a","r","t","y","_","s","t","a","t","e">>>>,
      <<"Responsible Party Zip", <<"R","e","s","p","o","n","s","i","b","l","e"," ","P","a","r","t","y"," ","Z","i","p">>>>,
      <<"responsible_party_zip", <<"r","e","s","p","o","n","s","i","b","l","e","_","p","a","r","t","y","_","z","i","p">>>>,
      <<"Responsible Party Accepts Responsibility (Y/N)", <<"R","e","s","p","o","n","s","i","b","l","e"," ","P","a","r","t","y"," ","A","c","c","e","p","t","s"," ","R","e","s","p","o","n","s","i","b","i","l","i","t","y"," ","(","Y","/","N",")">>>>,
      <<"accepts_responsibility", <<"a","c","c","e","p","t","s","_","r","e","s","p","o","n","s","i","b","i","l","i","t","y">>>>,
      <<"Release Type", <<"R","e","l","e","a","s","e"," ","T","y","p","e">>>>,
      <<"release_type", <<"r","e","l","e","a","s","e","_","t","y","p","e">>>>,
      <<"Location Of Reported Release", <<"L","o","c","a","t","i","o","n"," ","O","f"," ","R","e","p","o","r","t","e","d"," ","R","e","l","e","a","s","e">>>>,
      <<"release_location", <<"r","e","l","e","a","s","e","_","l","o","c","a","t","i","o","n">>>>,
      <<"Release Substance", <<"R","e","l","e","a","s","e"," ","S","u","b","s","t","a","n","c","e">>>>,
      <<"substance", <<"s","u","b","s","t","a","n","c","e">>>>,
      <<"Total Quantity Gallons", <<"T","o","t","a","l"," ","Q","u","a","n","t","i","t","y"," ","G","a","l","l","o","n","s">>>>,
      <<"quantity_gallons", <<"q","u","a","n","t","i","t","y","_","g","a","l","l","o","n","s">>>>,
      <<"Total Quantity Yards", <<"T","o","t","a","l"," ","Q","u","a","n","t","i","t","y"," ","Y","a","r","d","s">>>>,
      <<"quantity_yards", <<"q","u","a","n","t","i","t","y","_","y","a","r","d","s">>>>,
      <<"Total Quantity Feet", <<"T","o","t","a","l"," ","Q","u","a","n","t","i","t","y"," ","F","e","e","t">>>>,
      <<"quantity_feet", <<"q","u","a","n","t","i","t","y","_","f","e","e","t">>>>,
      <<"Total Quantity Drums", <<"T","o","t","a","l"," ","Q","u","a","n","t","i","t","y"," ","D","r","u","m","s">>>>,
      <<"quantity_drums", <<"q","u","a","n","t","i","t","y","_","d","r","u","m","s">>>>,
      <<"Total Quantity Pounds", <<"T","o","t","a","l"," ","Q","u","a","n","t","i","t","y"," ","P","o","u","n","d","s">>>>,
      <<"quantity_pounds", <<"q","u","a","n","t","i","t","y","_","p","o","u","n","d","s">>>>,
      <<"Emergency Measures", <<"E","m","e","r","g","e","n","c","y"," ","M","e","a","s","u","r","e","s">>>>,
      <<"emergency_measures", <<"e","m","e","r","g","e","n","c","y","_","m","e","a","s","u","r","e","s">>>>,
      <<"Type of Waterbody Affected", <<"T","y","p","e"," ","o","f"," ","W","a","t","e","r","b","o","d","y"," ","A","f","f","e","c","t","e","d">>>>,
      <<"waterbody_type", <<"w","a","t","e","r","b","o","d","y","_","t","y","p","e">>>>,
      <<"Waterbodies Affected", <<"W","a","t","e","r","b","o","d","i","e","s"," ","A","f","f","e","c","t","e","d">>>>,
      <<"waterbodies_affected", <<"w","a","t","e","r","b","o","d","i","e","s","_","a","f","f","e","c","t","e","d">>>>,
      <<"Corrective Actions Taken", <<"C","o","r","r","e","c","t","i","v","e"," ","A","c","t","i","o","n","s"," ","T","a","k","e","n">>>>,
      <<"corrective_actions", <<"c","o","r","r","e","c","t","i","v","e","_","a","c","t","i","o","n","s">>>>,
      <<"Cause Info", <<"C","a","u","s","e"," ","I","n","f","o">>>>,
      <<"cause", <<"c","a","u","s","e">>>>,
      <<"Media Info", <<"M","e","d","i","a"," ","I","n","f","o">>>>,
      <<"media", <<"m","e","d","i","a">>>>,
      <<"Assigned to", <<"A","s","s","i","g","n","e","d"," ","t","o">>>>,
      <<"assigned_to", <<"a","s","s","i","g","n","e","d","_","t","o">>>>,
      <<"Reported By", <<"R","e","p","o","r","t","e","d"," ","B","y">>>>,
      <<"reported_by", <<"r","e","p","o","r","t","e","d","_","b","y">>>>,
      <<"Representing", <<"R","e","p","r","e","s","e","n","t","i","n","g">>>>,
      <<"representing", <<"r","e","p","r","e","s","e","n","t","i","n","g">>>>,
      <<"Status", <<"S","t","a","t","u","s">>>>,
      <<"status", <<"s","t","a","t","u","s">>>>,
      <<"Incident ID/Ref", <<"I","n","c","i","d","e","n","t"," ","I","D","/","R","e","f">>>>,
      <<"incident_id_ref", <<"i","n","c","i","d","e","n","t","_","i","d","_","r","e","f">>>>,
      <<"release_year", <<"r","e","l","e","a","s","e","_","y","e","a","r">>>>,
      <<"release_month", <<"r","e","l","e","a","s","e","_","m","o","n","t","h">>>>,
      <<"release_day", <<"r","e","l","e","a","s","e","_","d","a","y">>>>,
      <<"release_hour", <<"r","e","l","e","a","s","e","_","h","o","u","r">>>>,
      <<"release_dayofweek", <<"r","e","l","e","a","s","e","_","d","a","y","o","f","w","e","e","k">>>>,
      <<"release_quarter", <<"r","e","l","e","a","s","e","_","q","u","a","r","t","e","r">>>>,
      <<"time_period", <<"t","i","m","e","_","p","e","r","i","o","d">>>>,
      <<"total_quantity_equivalent", <<"t","o","t","a","l","_","q","u","a","n","t","i","t","y","_","e","q","u","i","v","a","l","e","n","t">>>>,
      <<"substance_category", <<"s","u","b","s","t","a","n","c","e","_","c","a","t","e","g","o","r","y">>>>,
      <<"cause_category", <<"c","a","u","s","e","_","c","a","t","e","g","o","r","y">>>>,
      <<"region", <<"r","e","g","i","o","n">>>>,
      <<"incident_severity", <<"i","n","c","i","d","e","n","t","_","s","e","v","e","r","i","t","y">>>>,
      <<"response_time_hours", <<"r","e","s","p","o","n","s","e","_","t","i","m","e","_","h","o","u","r","s">>>> }

chars_of(name) == (CHOOSE p \in Spelling : p[1] = name)[2]
name_of(chars) == (CHOOSE p \in Spelling : p[2] = chars)[1]

\* col.lower().replace(' ', '_').replace('/', '_')
lower_underscore(chars) ==
    AsTuple([i \in 1..Len(chars) |->
                LET c == LowerChar(chars[i])
                IN  IF c = " " \/ c = "/" THEN "_" ELSE c],
            Len(chars))

\* The name one column gets from clean_column_names.
CleanName(col) ==
    LET renamed ==
            IF \E p \in column_mapping : p[1] = col
            THEN (CHOOSE p \in column_mapping : p[1] = col)[2]
            ELSE col
    IN  name_of(lower_underscore(chars_of(renamed)))


\* ------------------------------------------------------------------ tables

\* A DataFrame: its column names and its rows in order.  A row keeps its
\* index label idx (its position in the file) and its cells c, by column.
\* self.df = None is NoDf.
NoDf == [none |-> TRUE]
Table(cols, rows) == [none |-> FALSE, cols |-> cols, rows |-> rows]

HasCol(df, col) == col \in df.cols

\* df[col] = F(row), a new column or an overwritten one
WithColumn(df, col, F(_)) ==
    Table(df.cols \cup {col},
          AsTuple([i \in 1..Len(df.rows) |->
                      [idx |-> df.rows[i].idx,
                       c   |-> (col :> F(df.rows[i].c)) @@ df.rows[i].c]],
                  Len(df.rows)))

\* df[mask]: the rows satisfying Keep, in order, index labels kept
FilterRows(df, Keep(_)) ==
    Table(df.cols, SelectSeq(df.rows, LAMBDA r : Keep(r.c)))

\* The non-null numbers of a column, in row order.
ColumnValues(df, col) ==
    LET present == SelectSeq(df.rows, LAMBDA r : ~isna(r.c[col]))
    IN  AsTuple([i \in 1..Len(present) |-> present[i].c[col].n],
                Len(present))

\* The k-th smallest element of a sequence of numbers (k = 1 the smallest).
KthSmallest(vals, k) ==
    CHOOSE v \in {vals[i] : i \in 1..Len(vals)} :
        /\ Cardinality({i \in 1..Len(vals) : vals[i] < v}) < k
        /\ Cardinality({i \in 1..Len(vals) : vals[i] <= v}) >= k

\* A median that takes the lower of the two middle values of an even count.
median_lower_middle(vals) ==
    LET n == Len(vals)
    IN  IF n = 0 THEN Null
        ELSE Num(KthSmallest(vals, (n + 1) \div 2))

\* Series.median(): NaN when there is no value
median(vals) ==
    LET n == Len(vals)
    IN  IF n = 0 THEN Null
        ELSE IF n % 2 = 1 THEN Num(KthSmallest(vals, (n + 1) \div 2))
        ELSE Num((KthSmallest(vals, n \div 2)
                  + KthSmallest(vals, n \div 2 + 1)) \div 2)

\* Four times Series.quantile(k / 4) with pandas' linear interpolation
\* between the two nearest order statistics; vals is not empty.
quantile_x4(vals, k) ==
    LET pos4 == (Len(vals) - 1) * k
        lo   == pos4 \div 4
        r    == pos4 % 4
        a    == KthSmallest(vals, lo + 1)
    IN  IF r = 0 THEN 4 * a
        ELSE 4 * a + (KthSmallest(vals, lo + 2) - a) * r

\* --------------------------------------------------------------------- load_data

\* The cell texts pd.read_csv reads as a missing value (its default
\* na_values).
na_values ==
    { <<>>,
      <<"#","N","/","A">>,
      <<"#","N","/","A"," ","N","/","A">>,
      <<"#","N","A">>,
      <<"-","1",".","#","I","N","D">>,
      <<"-","1",".","#","Q","N","A","N">>,
      <<"-","N","a","N">>,
      <<"-","n","a","n">>,
      <<"1",".","#","I","N","D">>,
      <<"1",".","#","Q","N","A","N">>,
      <<"<","N","A",">">>,
      <<"N","/","A">>,
      <<"N","A">>,
      <<"N","U","L","L">>,
      <<"N","a","N">>,
      <<"N","o","n","e">>,
      <<"n","/","a">>,
      <<"n","a","n">>,
      <<"n","u","l","l">> }

IsMissingText(cell) == cell.t = "s" /\ cell.s \in na_values

AllDigitsAndDots(s) == \A i \in 1..Len(s) : IsDigit(s[i]) \/ s[i] = "."

\* A cell text split at its first 'e' or 'E': mantissa and exponent texts.
ExpAt(s) == {i \in 1..Len(s) : s[i] = "e" \/ s[i] = "E"}
Unsigned(s) ==
    IF s # <<>> /\ (Head(s) = "-" \/ Head(s) = "+") THEN Tail(s) ELSE s
MantissaText(s) ==
    LET u == Unsigned(s)
    IN  IF ExpAt(u) = {} THEN u
        ELSE SubSeq(u, 1, (CHOOSE i \in ExpAt(u) : \A j \in ExpAt(u) : i <= j) - 1)
ExponentText(s) ==
    LET u == Unsigned(s)
    IN  IF ExpAt(u) = {} THEN <<"0">>
        ELSE SubSeq(u, (CHOOSE i \in ExpAt(u) : \A j \in ExpAt(u) : i <= j) + 1,
                    Len(u))

\* Whether read_csv's type inference takes the text for a number:
\* [sign] digits [. digits] [e [sign] digits]
IsCsvNumber(s) ==
    LET m == MantissaText(s)
        x == Unsigned(ExponentText(s))
    IN  /\ AllDigitsAndDots(m)
        /\ ~isna(to_numeric(m))
        /\ x # <<>>
        /\ \A i \in 1..Len(x) : IsDigit(x[i])

\* The float such a text denotes, as n of n / QScale.
CsvNumberValue(s) ==
    LET m == to_numeric(MantissaText(s)).n
        e == ExponentText(s)
        k == DigitsValue(Unsigned(e))
        v == IF Head(e) = "-" THEN m \div Pow10(k) ELSE m * Pow10(k)
    IN  IF Head(s) = "-" THEN -v ELSE v

\* Whether read_csv makes column col numeric: the file has rows and every
\* cell of the column that is not missing is a number.  A column of missing
\* values alone is numeric too (float64, all NaN).
IsNumericCsvColumn(tbl, col) ==
    /\ tbl.rows # <<>>
    /\ \A i \in 1..Len(tbl.rows) :
          LET cell == tbl.rows[i].c[col]
          IN  IsMissingText(cell) \/ (cell.t = "s" /\ IsCsvNumber(cell.s))

\* One cell as read_csv loads it into a column that is numeric or not.
ReadCsvCell(numeric, cell) ==
    IF IsMissingText(cell) THEN Null
    ELSE IF numeric THEN Num(CsvNumberValue(cell.s))
    ELSE cell

\* The cells of a row, given its cells by column as a function on cols.
Cells(cols, f) ==
    LET RECURSIVE build(_)
        build(todo) ==
            IF todo = {} THEN <<>>
            ELSE LET k == CHOOSE x \in todo : TRUE
                 IN  (k :> f[k]) @@ build(todo \ {k})
    IN  build(cols)

\* pd.read_csv(path, low_memory=False) of a file that exists
read_csv(tbl) ==
    LET numeric == Cells(tbl.cols, [k \in tbl.cols |-> IsNumericCsvColumn(tbl, k)])
    IN  Table(tbl.cols,
              AsTuple([i \in 1..Len(tbl.rows) |->
                          [idx |-> tbl.rows[i].idx,
                           c   |-> Cells(tbl.cols,
                                         [k \in tbl.cols |->
                                             ReadCsvCell(numeric[k],
                                                         tbl.rows[i].c[k])])]],
                      Len(tbl.rows)))

\* ------------------------------------------------------------ clean_column_names

clean_column_names(df) ==
    LET new_name == Cells(df.cols, [k \in df.cols |-> CleanName(k)])
        newcols  == {new_name[k] : k \in df.cols}
        old_name == Cells(newcols,
                          [n \in newcols |->
                              CHOOSE k \in df.cols : new_name[k] = n])
    IN  Table(newcols,
              AsTuple([i \in 1..Len(df.rows) |->
                          [idx |-> df.rows[i].idx,
                           c   |-> Cells(newcols,
                                         [n \in newcols |->
                                             df.rows[i].c[old_name[n]]])]],
                      Len(df.rows)))

\* -------------------------------------------------------- parse_datetime_columns

\* A timestamp: calendar fields, and abs, its hours since a fixed epoch.
\* A cell [t |-> "dt", ...] is text that spells the timestamp, a cell
\* [t |-> "ts", ...] is the parsed Timestamp.
DateText(y, mo, d, h, dw, abs) ==
    [t |-> "dt", y |-> y, mo |-> mo, d |-> d, h |-> h, dw |-> dw, abs |-> abs]

\* pd.to_datetime(errors='coerce') of one cell: NaT for a missing value and
\* for text that is no date
to_datetime(cell) ==
    CASE cell.t = "dt" -> [cell EXCEPT !.t = "ts"]
      [] cell.t = "ts" -> cell
      [] OTHER -> Null

\* .dt.year, .dt.month, ...: NaN on NaT
dt_year(cell)      == IF isna(cell) THEN Null ELSE Num(cell.y * QScale)
dt_month(cell)     == IF isna(cell) THEN Null ELSE Num(cell.mo * QScale)
dt_day(cell)       == IF isna(cell) THEN Null ELSE Num(cell.d * QScale)
dt_hour(cell)      == IF isna(cell) THEN Null ELSE Num(cell.h * QScale)
dt_dayofweek(cell) == IF isna(cell) THEN Null ELSE Num(cell.dw * QScale)
dt_quarter(cell)   ==
    IF isna(cell) THEN Null ELSE Num((((cell.mo - 1) \div 3) + 1) * QScale)

\* The columns parse_datetime_columns reads; a missing one is a KeyError.
DatetimeColumns == {"release_datetime", "date_reported"}

parse_datetime_columns(df) ==
    LET d1 == WithColumn(df, "release_datetime",
                         LAMBDA c : to_datetime(c["release_datetime"]))
        d2 == WithColumn(d1, "date_reported",
                         LAMBDA c : to_datetime(c["date_reported"]))
        d3 == WithColumn(d2, "release_year",
                         LAMBDA c : dt_year(c["release_datetime"]))
        d4 == WithColumn(d3, "release_month",
                         LAMBDA c : dt_month(c["release_datetime"]))
        d5 == WithColumn(d4, "release_day",
                         LAMBDA c : dt_day(c["release_datetime"]))
        d6 == WithColumn(d5, "release_hour",
                         LAMBDA c : dt_hour(c["release_datetime"]))
        d7 == WithColumn(d6, "release_dayofweek",
                         LAMBDA c : dt_dayofweek(c["release_datetime"]))
        d8 == WithColumn(d7, "release_quarter",
                         LAMBDA c : dt_quarter(c["release_datetime"]))
    IN  WithColumn(d8, "time_period",
                   LAMBDA c : Lab(_categorize_time_period(c["release_hour"])))

\* --------------------------------------------------------- clean_numeric_columns

quantity_columns ==
    <<"quantity_gallons", "quantity_yards", "quantity_feet",
      "quantity_drums", "quantity_pounds">>

RECURSIVE CleanQuantityColumns(_, _)
CleanQuantityColumns(df, i) ==
    IF i > Len(quantity_columns) THEN df
    ELSE LET col == quantity_columns[i]
         IN  IF HasCol(df, col)
             THEN CleanQuantityColumns(
                      WithColumn(df, col,
                                 LAMBDA c : CleanQuantityCell(c[col])),
                      i + 1)
             ELSE CleanQuantityColumns(df, i + 1)

\* self.df.get(col, 0) on one row, as the integer n of the float n / QScale
Get0(df, c, col) == IF HasCol(df, col) THEN c[col].n ELSE 0

\* The total with the coefficients of yards and drums exchanged.
TotalQuantity_yards_drums_exchanged(df, c) ==
    Num(Get0(df, c, "quantity_gallons") * 100
        + Get0(df, c, "quantity_yards") * 5500
        + Get0(df, c, "quantity_feet") * 748
        + Get0(df, c, "quantity_drums") * 20200
        + Get0(df, c, "quantity_pounds") * 12)

\* lines 157-163 on one row, in units of 1 / TScale: the coefficients are
\* 1, 202, 7.48, 55 and 0.12 times 100
TotalQuantity(df, c) ==
    Num(Get0(df, c, "quantity_gallons") * 100
        + Get0(df, c, "quantity_yards") * 20200
        + Get0(df, c, "quantity_feet") * 748
        + Get0(df, c, "quantity_drums") * 5500
        + Get0(df, c, "quantity_pounds") * 12)

clean_numeric_columns(df) ==
    LET cleaned == CleanQuantityColumns(df, 1)
    IN  WithColumn(cleaned, "total_quantity_equivalent",
                   LAMBDA c : TotalQuantity(cleaned, c))


\* ----------------------------------------------------- clean_categorical_columns

\* Whether df[col].str exists: read_csv gives a column with no text in it
\* (every cell missing) the dtype float64, and .str raises AttributeError
\* on it; the columns of a file without rows are of dtype object
IsStringColumn(df, col) ==
    \/ df.rows = <<>>
    \/ \E i \in 1..Len(df.rows) : df.rows[i].c[col].t = "s"

\* .str.upper().str.strip() on one cell
upper_strip(cell) ==
    IF cell.t = "s" THEN Str(strip(upper(cell.s))) ELSE Null

\* The columns whose .str accessor clean_categorical_columns uses.
StrAccessorColumns == {"town", "state"}

\* lines 171-185: town, substance_category, cause_category
CategoricalBeforeState(df) ==
    LET d1 == IF HasCol(df, "town")
              THEN WithColumn(df, "town", LAMBDA c : upper_strip(c["town"]))
              ELSE df
        d2 == IF HasCol(d1, "substance")
              THEN WithColumn(d1, "substance_category",
                       LAMBDA c : Lab(_categorize_substance(c["substance"])))
              ELSE d1
    IN  IF HasCol(d2, "cause")
        THEN WithColumn(d2, "cause_category",
                 LAMBDA c : Lab(_categorize_cause(c["cause"])))
        ELSE d2

clean_categorical_columns(df) ==
    LET d3 == CategoricalBeforeState(df)
    IN  IF HasCol(d3, "state")
        THEN WithColumn(d3, "state", LAMBDA c : upper_strip(c["state"]))
        ELSE d3

\* ----------------------------------------------------- filter_research_timeframe

\* The year test with the end year excluded.
InTimeframe_end_excluded(c, start_year, end_year) ==
    /\ ~isna(c["release_year"])
    /\ c["release_year"].n >= start_year * QScale
    /\ c["release_year"].n < end_year * QScale

\* (df['release_year'] >= start_year) & (df['release_year'] <= end_year) on
\* one row: a comparison with NaN is False
InTimeframe(c, start_year, end_year) ==
    /\ ~isna(c["release_year"])
    /\ c["release_year"].n >= start_year * QScale
    /\ c["release_year"].n <= end_year * QScale

filter_research_timeframe(df, start_year, end_year) ==
    IF HasCol(df, "release_year")
    THEN FilterRows(df, LAMBDA c : InTimeframe(c, start_year, end_year))
    ELSE df

\* --------------------------------------------------------- handle_missing_values

categorical_columns == <<"town", "substance", "cause", "responsible_party">>
numeric_columns == <<"release_hour", "release_year">>

UnknownText == Str(<<"U","n","k","n","o","w","n">>)

RECURSIVE FillCategorical(_, _)
FillCategorical(df, i) ==
    IF i > Len(categorical_columns) THEN df
    ELSE LET col == categorical_columns[i]
         IN  IF HasCol(df, col)
             THEN FillCategorical(
                      WithColumn(df, col,
                                 LAMBDA c : fillna(c[col], UnknownText)),
                      i + 1)
             ELSE FillCategorical(df, i + 1)

RECURSIVE FillNumeric(_, _)
FillNumeric(df, i) ==
    IF i > Len(numeric_columns) THEN df
    ELSE LET col == numeric_columns[i]
         IN  IF HasCol(df, col)
             THEN LET m == median(ColumnValues(df, col))
                  IN  FillNumeric(
                          WithColumn(df, col, LAMBDA c : fillna(c[col], m)),
                          i + 1)
             ELSE FillNumeric(df, i + 1)

\* handle_missing_values that drops the rows without town before filling.
handle_missing_values_dropping_rows(df) ==
    FillNumeric(
        FillCategorical(
            FilterRows(df, LAMBDA c : HasCol(df, "town") => ~isna(c["town"])),
            1),
        1)

handle_missing_values(df) == FillNumeric(FillCategorical(df, 1), 1)

\* --------------------------------------------------------------- remove_outliers

\* Eight times lower_bound and upper_bound of lines 289-293 over the values
\* of a column that has at least one.
lower_bound_x8(vals) ==
    LET Q1 == quantile_x4(vals, 1)
        Q3 == quantile_x4(vals, 3)
    IN  2 * Q1 - 3 * (Q3 - Q1)
upper_bound_x8(vals) ==
    LET Q1 == quantile_x4(vals, 1)
        Q3 == quantile_x4(vals, 3)
    IN  2 * Q3 + 3 * (Q3 - Q1)

\* The outlier filter with strict comparisons: a row on a bound is dropped.
RemoveOutliersOf_strict(df, col) ==
    IF ~HasCol(df, col) THEN df
    ELSE LET vals == ColumnValues(df, col)
         IN  IF vals = <<>> THEN FilterRows(df, LAMBDA c : FALSE)
             ELSE FilterRows(df,
                      LAMBDA c : /\ ~isna(c[col])
                                 /\ 8 * c[col].n > lower_bound_x8(vals)
                                 /\ 8 * c[col].n < upper_bound_x8(vals))

\* One pass of the loop of lines 287-298.  Without any value the bounds are
\* NaN and every comparison is False.
RemoveOutliersOf(df, col) ==
    IF ~HasCol(df, col) THEN df
    ELSE LET vals == ColumnValues(df, col)
         IN  IF vals = <<>> THEN FilterRows(df, LAMBDA c : FALSE)
             ELSE FilterRows(df,
                      LAMBDA c : /\ ~isna(c[col])
                                 /\ 8 * c[col].n >= lower_bound_x8(vals)
                                 /\ 8 * c[col].n <= upper_bound_x8(vals))

\* remove_outliers() with columns=None
remove_outliers(df) == RemoveOutliersOf(df, "total_quantity_equivalent")

\* ------------------------------------------------------- create_derived_features

\* _categorize_severity with the thresholds taken into the lower label.
_categorize_severity_closed_upper(quantity) ==
    IF isna(quantity) \/ quantity.n = 0 THEN "Unknown/Minimal"
    ELSE IF quantity.n <= 10 * TScale THEN "Low"
    ELSE IF quantity.n <= 100 * TScale THEN "Medium"
    ELSE IF quantity.n <= 1000 * TScale THEN "High"
    ELSE "Very High"

_categorize_severity(quantity) ==
    IF isna(quantity) \/ quantity.n = 0 THEN "Unknown/Minimal"
    ELSE IF quantity.n < 10 * TScale THEN "Low"
    ELSE IF quantity.n < 100 * TScale THEN "Medium"
    ELSE IF quantity.n < 1000 * TScale THEN "High"
    ELSE "Very High"

\* (date_reported - release_datetime).dt.total_seconds() / 3600 on one row
response_time_hours(c) ==
    IF isna(c["date_reported"]) \/ isna(c["release_datetime"]) THEN Null
    ELSE Num((c["date_reported"].abs - c["release_datetime"].abs) * QScale)

\* The columns create_derived_features reads; a missing one is a KeyError.
DerivedFeatureColumns == {"town", "total_quantity_equivalent"}

create_derived_features(df) ==
    LET d1 == WithColumn(df, "region",
                         LAMBDA c : Lab(_assign_region(c["town"])))
        d2 == WithColumn(d1, "incident_severity",
                  LAMBDA c : Lab(_categorize_severity(
                                     c["total_quantity_equivalent"])))
    IN  IF HasCol(d2, "date_reported") /\ HasCol(d2, "release_datetime")
        THEN WithColumn(d2, "response_time_hours",
                        LAMBDA c : response_time_hours(c))
        ELSE d2

\* --------------------------------------------------------- validate_data_quality

\* The columns validate_data_quality reads; a missing one is a KeyError.
ValidationColumns ==
    {"town", "release_datetime", "substance", "cause", "release_year"}


\* ------------------------------------------------------------------- state

VARIABLES
    file,       \* the CSV file at raw_data_path: a table of cell texts, or NoFile
    df,         \* self.df
    cleaned_df, \* self.cleaned_df
    pc,         \* where process_all stands: the step it runs next
    args,       \* the arguments of the running process_all call
    raised,     \* the exception process_all ended with, "none" without one
    before,     \* self.df as it was when the step last run started (history)
    fnKind,     \* which helper the unit harness exercises
    fnArg,      \* the argument built for it
    fnLen,      \* pieces appended to fnArg so far
    fnGrow,     \* whether fnArg may still be extended
    fnRes,      \* what the helper returned, NoRes before the call
    clean_csv,  \* the file save_cleaned_data writes, NoFile before
    report,     \* what the report script or the dashboard produced
    first       \* how an earlier process_all call ended (history), NoRun before

rpVars == <<clean_csv, report, first>>
plVars == <<file, df, cleaned_df, pc, args, raised, before, clean_csv, report,
            first>>
fnVars == <<fnKind, fnArg, fnLen, fnGrow, fnRes>>
vars == <<file, df, cleaned_df, pc, args, raised, before,
          fnKind, fnArg, fnLen, fnGrow, fnRes, clean_csv, report, first>>

\* ---------------------------------------------- unit harness of the helpers

NoRes == [f |-> "none"]
Res(f, v) == [f |-> f, v |-> v]

SeqToSet(q) == {q[i] : i \in 1..Len(q)}

SubstanceFrags ==
    SeqToSet(PetroleumKeywords) \cup SeqToSet(ChemicalKeywords)
    \cup SeqToSet(WasteKeywords)
    \cup {<<"d","i","e","s","e","l">>,
            <<"W","a","s","t","e">>,
            <<" ">>,
            <<"S">>,
            <<"S","P","I","L","L">>,
            <<"x">>}
CauseKeywordFrags ==
    {<<"M","V">>,
     <<"M","O","T","O","R"," ","V","E","H","I","C","L","E">>,
     <<"A","C","C","I","D","E","N","T">>,
     <<"E","Q","U","I","P","M","E","N","T">>,
     <<"F","A","I","L","U","R","E">>,
     <<"M","E","C","H","A","N","I","C","A","L">>,
     <<"H","U","M","A","N">>,
     <<"O","P","E","R","A","T","O","R">>,
     <<"E","R","R","O","R">>,
     <<"W","E","A","T","H","E","R">>,
     <<"N","A","T","U","R","A","L">>}
CauseFrags ==
    CauseKeywordFrags
    \cup {<<"M">>,
            <<"V">>,
            <<"a","c","c","i","d","e","n","t">>,
            <<" ">>,
            <<"O","N">>,
            <<"x">>}
TownFrags ==
    SeqToSet(eastern_towns) \cup SeqToSet(western_towns)
    \cup SeqToSet(central_towns) \cup SeqToSet(northern_towns)
    \cup SeqToSet(southern_towns)
    \cup {<<"g","r","o","t","o","n">>,
            <<" ">>,
            <<","," ","C","T">>,
            <<"E","A","S","T"," ">>,
            <<"x">>}
QuantityChars == {"0", "1", "7", ".", "-", "e", ",", " ", "g"}

\* What may be appended to an argument of each kind, and how often.
Pieces(kind) ==
    CASE kind = "substance" -> SubstanceFrags
      [] kind = "cause" -> CauseFrags
      [] kind = "town" -> TownFrags
      [] kind = "quantity" -> {<<c>> : c \in QuantityChars}
      [] OTHER -> {}
MaxPieces(kind) == IF kind = "quantity" THEN MaxCellLen ELSE MaxFrags

\* The arguments given whole, never extended.
Samples(kind) ==
    CASE kind = "substance" ->
            {Null, Str(<<"D","I","E","S","E","L"," ","F","U","E","L"," ","S","P","I","L","L">>), Str(<<"U","n","k","n","o","w","n">>)}
      [] kind = "cause" ->
            {Null, Str(<<"M","O","T","O","R"," ","V","E","H","I","C","L","E"," ","A","C","C","I","D","E","N","T"," ","O","N"," ","I","-","9","5">>), Str(<<"U","n","k","n","o","w","n">>)}
      [] kind = "town" ->
            {Null, Str(<<"G","R","O","T","O","N",","," ","C","T">>), Str(<<"U","n","k","n","o","w","n">>)}
      [] kind = "quantity" ->
            {Null, Str(<<"1",",","2","5","0"," ","g","a","l">>),
             Num(1250 * QScale), Num(-5 * QScale), Num(QScale \div 2)}
      [] kind = "hour" -> {Null} \cup {Num(h * QScale) : h \in 0..23}
      [] kind = "severity" ->
            {Null, Num(0), Num(-5 * TScale), Num(1), Num(5 * TScale),
             Num(50 * TScale), Num(500 * TScale), Num(5000 * TScale)}
            \cup {Num(k * TScale + d) : k \in {10, 100, 1000}, d \in {-1, 0, 1}}

FnKinds == {"substance", "cause", "town", "quantity", "hour", "severity"}

\* The pipeline at rest, while the helpers are exercised alone.
PipelineOff ==
    /\ file = [none |-> TRUE]
    /\ df = [none |-> TRUE]
    /\ cleaned_df = [none |-> TRUE]
    /\ pc = "off"
    /\ args = [none |-> TRUE]
    /\ raised = "none"
    /\ before = [none |-> TRUE]
    /\ clean_csv = [none |-> TRUE]
    /\ report = [none |-> TRUE]
    /\ first = [none |-> TRUE]

FnInit ==
    /\ PipelineOff
    /\ fnKind \in FnKinds
    /\ \/ fnArg \in Samples(fnKind) /\ fnGrow = FALSE
       \/ fnKind \notin {"hour", "severity"} /\ fnArg = Str(<<>>) /\ fnGrow = TRUE
    /\ fnLen = 0
    /\ fnRes = NoRes

FnAppend ==
    /\ fnRes = NoRes
    /\ fnGrow
    /\ fnLen < MaxPieces(fnKind)
    /\ \E p \in Pieces(fnKind) : fnArg' = Str(fnArg.s \o p)
    /\ fnLen' = fnLen + 1
    /\ UNCHANGED <<fnKind, fnGrow, fnRes>>
    /\ UNCHANGED plVars

CallCategorizeSubstance ==
    /\ fnRes = NoRes
    /\ fnKind = "substance"
    /\ fnRes' = Res("substance", _categorize_substance(fnArg))
    /\ UNCHANGED <<fnKind, fnArg, fnLen, fnGrow>>
    /\ UNCHANGED plVars

CallCategorizeCause ==
    /\ fnRes = NoRes
    /\ fnKind = "cause"
    /\ fnRes' = Res("cause", _categorize_cause(fnArg))
    /\ UNCHANGED <<fnKind, fnArg, fnLen, fnGrow>>
    /\ UNCHANGED plVars

CallAssignRegion ==
    /\ fnRes = NoRes
    /\ fnKind = "town"
    /\ fnRes' = Res("town", _assign_region(fnArg))
    /\ UNCHANGED <<fnKind, fnArg, fnLen, fnGrow>>
    /\ UNCHANGED plVars

CallCleanQuantityCell ==
    /\ fnRes = NoRes
    /\ fnKind = "quantity"
    /\ fnRes' = Res("quantity", CleanQuantityCell(fnArg))
    /\ UNCHANGED <<fnKind, fnArg, fnLen, fnGrow>>
    /\ UNCHANGED plVars

CallCategorizeTimePeriod ==
    /\ fnRes = NoRes
    /\ fnKind = "hour"
    /\ fnRes' = Res("hour", _categorize_time_period(fnArg))
    /\ UNCHANGED <<fnKind, fnArg, fnLen, fnGrow>>
    /\ UNCHANGED plVars

CallCategorizeSeverity ==
    /\ fnRes = NoRes
    /\ fnKind = "severity"
    /\ fnRes' = Res("severity", _categorize_severity(fnArg))
    /\ UNCHANGED <<fnKind, fnArg, fnLen, fnGrow>>
    /\ UNCHANGED plVars

FnNext ==
    \/ FnAppend
    \/ CallCategorizeSubstance
    \/ CallCategorizeCause
    \/ CallAssignRegion
    \/ CallCleanQuantityCell
    \/ CallCategorizeTimePeriod
    \/ CallCategorizeSeverity

FnSpec == FnInit /\ [][FnNext]_vars

\* ------------------------------------------------------------- process_all

NoFile == [none |-> TRUE]
\* A file that exists and is no CSV table (empty, or with ragged lines).
UnparsableFile == [none |-> FALSE, unparsable |-> TRUE]
NoArgs == [none |-> TRUE]
NoReport == [none |-> TRUE]
NoRun == [none |-> TRUE]

\* The exception pd.read_csv raises on the file, "none" when it loads.
LoadError(f) ==
    IF f = NoFile THEN "FileNotFoundError"
    ELSE IF f = UnparsableFile THEN "ParserError"
    ELSE "none"

\* The year bounds process_all is called with.
YearBounds == {<<2019, 2022>>, <<2020, 2020>>}

Args ==
    [filter_timeframe : BOOLEAN, remove_outliers_flag : BOOLEAN,
     start_year : {b[1] : b \in YearBounds},
     end_year : {b[2] : b \in YearBounds}]

\* A step of process_all ends: self.df is newdf and the next step is next.
Step(next, newdf) ==
    /\ df' = newdf
    /\ before' = df
    /\ pc' = next
    /\ UNCHANGED <<file, cleaned_df, args, raised, fnVars, rpVars>>

\* A step raises exc, leaving self.df as newdf: process_all ends there.
Raise(exc, newdf) ==
    /\ df' = newdf
    /\ before' = df
    /\ pc' = "raised"
    /\ raised' = exc
    /\ UNCHANGED <<file, cleaned_df, args, fnVars, rpVars>>

\* load_data is called on a processor that has loaded nothing yet (lines
\* 41-48): the exception of read_csv is logged and re-raised
LoadData ==
    /\ pc = "idle"
    /\ df = NoDf
    /\ IF LoadError(file) # "none"
       THEN /\ pc' = "raised"
            /\ raised' = LoadError(file)
            /\ df' = df
       ELSE /\ pc' = pc
            /\ raised' = raised
            /\ df' = read_csv(file)
    /\ before' = df
    /\ UNCHANGED <<file, cleaned_df, args, fnVars, rpVars>>

\* process_all with a failed load taken as an empty table instead of
\* re-raised.
ProcessAll_load_error_swallowed ==
    /\ pc = "idle"
    /\ \E a \in Args :
          /\ <<a.start_year, a.end_year>> \in YearBounds
          /\ args' = a
    /\ pc' = "clean_column_names"
    /\ raised' = raised
    /\ df' = IF df # NoDf THEN df
             ELSE IF LoadError(file) # "none" THEN Table({}, <<>>)
             ELSE read_csv(file)
    /\ before' = df
    /\ UNCHANGED <<file, cleaned_df, fnVars, rpVars>>

\* process_all is called (lines 401-405): load_data runs when no data is
\* loaded, and its exception is re-raised
ProcessAll ==
    /\ pc = "idle"
    /\ \E a \in Args :
          /\ <<a.start_year, a.end_year>> \in YearBounds
          /\ args' = a
    /\ IF df = NoDf /\ LoadError(file) # "none"
       THEN /\ pc' = "raised"
            /\ raised' = LoadError(file)
            /\ df' = df
       ELSE /\ pc' = "clean_column_names"
            /\ raised' = raised
            /\ df' = IF df = NoDf THEN read_csv(file) ELSE df
    /\ before' = df
    /\ UNCHANGED <<file, cleaned_df, fnVars, rpVars>>

CleanColumnNames ==
    /\ pc = "clean_column_names"
    /\ Step("parse_datetime_columns", clean_column_names(df))

ParseDatetimeColumns ==
    /\ pc = "parse_datetime_columns"
    /\ IF ~HasCol(df, "release_datetime")
       THEN Raise("KeyError", df)
       ELSE IF ~HasCol(df, "date_reported")
       THEN Raise("KeyError",
                  WithColumn(df, "release_datetime",
                             LAMBDA c : to_datetime(c["release_datetime"])))
       ELSE Step("clean_numeric_columns", parse_datetime_columns(df))

CleanNumericColumns ==
    /\ pc = "clean_numeric_columns"
    /\ Step("clean_categorical_columns", clean_numeric_columns(df))

CleanCategoricalColumns ==
    /\ pc = "clean_categorical_columns"
    /\ IF HasCol(df, "town") /\ ~IsStringColumn(df, "town")
       THEN Raise("AttributeError", df)
       ELSE IF HasCol(df, "state") /\ ~IsStringColumn(df, "state")
       THEN Raise("AttributeError", CategoricalBeforeState(df))
       ELSE Step("filter_research_timeframe", clean_categorical_columns(df))

FilterResearchTimeframe ==
    /\ pc = "filter_research_timeframe"
    /\ Step("handle_missing_values",
            IF args.filter_timeframe
            THEN filter_research_timeframe(df, args.start_year, args.end_year)
            ELSE df)

HandleMissingValues ==
    /\ pc = "handle_missing_values"
    /\ Step("remove_outliers", handle_missing_values(df))

RemoveOutliers ==
    /\ pc = "remove_outliers"
    /\ Step("create_derived_features",
            IF args.remove_outliers_flag THEN remove_outliers(df) ELSE df)

CreateDerivedFeatures ==
    /\ pc = "create_derived_features"
    /\ IF DerivedFeatureColumns \subseteq df.cols
       THEN Step("store", create_derived_features(df))
       ELSE Raise("KeyError", df)

\* line 424: self.cleaned_df = self.df.copy()
StoreCleaned ==
    /\ pc = "store"
    /\ cleaned_df' = df
    /\ pc' = "validate_data_quality"
    /\ before' = df
    /\ UNCHANGED <<file, df, args, raised, fnVars, rpVars>>

\* lines 427-431: the summary is computed and dropped, cleaned_df returned
ValidateDataQuality ==
    /\ pc = "validate_data_quality"
    /\ IF ValidationColumns \subseteq df.cols
       THEN Step("done", df)
       ELSE Raise("KeyError", df)

Next ==
    \/ LoadData
    \/ ProcessAll
    \/ CleanColumnNames
    \/ ParseDatetimeColumns
    \/ CleanNumericColumns
    \/ CleanCategoricalColumns
    \/ FilterResearchTimeframe
    \/ HandleMissingValues
    \/ RemoveOutliers
    \/ CreateDerivedFeatures
    \/ StoreCleaned
    \/ ValidateDataQuality

\* ------------------------------------------------------- save_cleaned_data

\* The labels the pipeline writes into its category columns, each with its
\* characters.
LabelSpelling ==
    { <<"Unknown", <<"U","n","k","n","o","w","n">>>>,
      <<"Other", <<"O","t","h","e","r">>>>,
      <<"Petroleum Products", <<"P","e","t","r","o","l","e","u","m"," ","P","r","o","d","u","c","t","s">>>>,
      <<"Chemicals", <<"C","h","e","m","i","c","a","l","s">>>>,
      <<"Waste Products", <<"W","a","s","t","e"," ","P","r","o","d","u","c","t","s">>>>,
      <<"Motor Vehicle Accident", <<"M","o","t","o","r"," ","V","e","h","i","c","l","e"," ","A","c","c","i","d","e","n","t">>>>,
      <<"Equipment Failure", <<"E","q","u","i","p","m","e","n","t"," ","F","a","i","l","u","r","e">>>>,
      <<"Human Error", <<"H","u","m","a","n"," ","E","r","r","o","r">>>>,
      <<"Natural Causes", <<"N","a","t","u","r","a","l"," ","C","a","u","s","e","s">>>>,
      <<"Morning (06:00-12:00)", <<"M","o","r","n","i","n","g"," ","(","0","6",":","0","0","-","1","2",":","0","0",")">>>>,
      <<"Afternoon (12:00-18:00)", <<"A","f","t","e","r","n","o","o","n"," ","(","1","2",":","0","0","-","1","8",":","0","0",")">>>>,
      <<"Evening (18:00-24:00)", <<"E","v","e","n","i","n","g"," ","(","1","8",":","0","0","-","2","4",":","0","0",")">>>>,
      <<"Night (00:00-06:00)", <<"N","i","g","h","t"," ","(","0","0",":","0","0","-","0","6",":","0","0",")">>>>,
      <<"Eastern Connecticut", <<"E","a","s","t","e","r","n"," ","C","o","n","n","e","c","t","i","c","u","t">>>>,
      <<"Western Connecticut", <<"W","e","s","t","e","r","n"," ","C","o","n","n","e","c","t","i","c","u","t">>>>,
      <<"Central Connecticut", <<"C","e","n","t","r","a","l"," ","C","o","n","n","e","c","t","i","c","u","t">>>>,
      <<"Northern Connecticut", <<"N","o","r","t","h","e","r","n"," ","C","o","n","n","e","c","t","i","c","u","t">>>>,
      <<"Southern Connecticut", <<"S","o","u","t","h","e","r","n"," ","C","o","n","n","e","c","t","i","c","u","t">>>>,
      <<"Other Connecticut", <<"O","t","h","e","r"," ","C","o","n","n","e","c","t","i","c","u","t">>>>,
      <<"Unknown/Minimal", <<"U","n","k","n","o","w","n","/","M","i","n","i","m","a","l">>>>,
      <<"Low", <<"L","o","w">>>>,
      <<"Medium", <<"M","e","d","i","u","m">>>>,
      <<"High", <<"H","i","g","h">>>>,
      <<"Very High", <<"V","e","r","y"," ","H","i","g","h">>>> }

label_chars(l) == (CHOOSE p \in LabelSpelling : p[1] = l)[2]

\* A writer that leaves the field of the label 'Unknown' empty.
WriteCsvCell_unknown_left_empty(cell) ==
    CASE cell.t = "null" -> Str(<<>>)
      [] cell.t = "s" -> cell
      [] cell.t = "l" -> IF cell.l = "Unknown" THEN Str(<<>>)
                         ELSE Str(label_chars(cell.l))
      [] cell.t = "n" -> Str(ReprNum(cell.n))
      [] cell.t = "ts" -> [cell EXCEPT !.t = "dt"]
      [] cell.t = "dt" -> cell

\* The text to_csv writes for a cell: nothing for a null, repr for a float,
\* the characters of a text or a label, the date and time of a Timestamp.
WriteCsvCell(cell) ==
    CASE cell.t = "null" -> Str(<<>>)
      [] cell.t = "s" -> cell
      [] cell.t = "l" -> Str(label_chars(cell.l))
      [] cell.t = "n" -> Str(ReprNum(cell.n))
      [] cell.t = "ts" -> [cell EXCEPT !.t = "dt"]
      [] cell.t = "dt" -> cell

\* df.to_csv(path, index=False), line 440: the header and one line per row,
\* the index labels left out
to_csv(tbl) ==
    Table(tbl.cols,
          AsTuple([i \in 1..Len(tbl.rows) |->
                      [idx |-> i - 1,
                       c   |-> Cells(tbl.cols,
                                     [k \in tbl.cols |->
                                         WriteCsvCell(tbl.rows[i].c[k])])]],
                  Len(tbl.rows)))

\* ------------------------------------------------------ run_research.main

\* Series.value_counts(): the count of each value, nulls left out
value_counts(tbl, col) ==
    LET vals == {tbl.rows[i].c[col] : i \in 1..Len(tbl.rows)} \ {Null}
    IN  Cells(vals,
              [v \in vals |->
                  Cardinality({i \in 1..Len(tbl.rows) : tbl.rows[i].c[col] = v})])

\* f"{(count / total) * 100:.1f}" in tenths of a percent: rounded to the
\* nearest tenth, a tie to the even one
PrintedShare(count, total) ==
    LET q == (count * 1000) \div total
        r == (count * 1000) % total
    IN  IF 2 * r > total \/ (2 * r = total /\ q % 2 = 1) THEN q + 1 ELSE q

\* Series.head(n) of a value_counts: the n values with the highest counts,
\* any of the possible ones where counts tie at the cut
HeadSets(counts, n) ==
    LET D == DOMAIN counts
    IN  IF Cardinality(D) <= n THEN {D}
        ELSE {T \in SUBSET D :
                 /\ Cardinality(T) = n
                 /\ \A v \in T : \A w \in D \ T : counts[v] >= counts[w]}

\* line 33
expected_towns ==
    {Str(<<"G","R","O","T","O","N">>),
     Str(<<"S","O","U","T","H","I","N","G","T","O","N">>),
     Str(<<"H","A","R","T","F","O","R","D">>),
     Str(<<"N","E","W"," ","B","R","I","T","A","I","N">>),
     Str(<<"E","N","F","I","E","L","D">>)}

\* lines 49-53: the counts of the hours from 0 to 23, nulls left out
HourlyCounts(data) ==
    LET valid == {i \in 1..Len(data.rows) :
                     LET h == data.rows[i].c["release_hour"]
                     IN  h.t = "n" /\ h.n >= 0 /\ h.n <= 23 * QScale}
        hours == {data.rows[i].c["release_hour"] : i \in valid}
    IN  Cells(hours,
              [h \in hours |->
                  Cardinality({i \in valid : data.rows[i].c["release_hour"] = h})])

\* hourly_counts.idxmax() after sort_index(): the first hour, in the order
\* of the hours, that has the highest count
PeakHour(counts) ==
    IF DOMAIN counts = {} THEN Null
    ELSE CHOOSE h \in DOMAIN counts :
             /\ \A g \in DOMAIN counts : counts[g] <= counts[h]
             /\ \A g \in DOMAIN counts : counts[g] = counts[h] => h.n <= g.n

\* hourly_counts.head(5) after sort_index(): the first five hours in the
\* order of the hours
ListedHours(counts) ==
    {h \in DOMAIN counts :
        Cardinality({g \in DOMAIN counts : g.n < h.n}) < 5}

\* What main has computed and printed when it ends, and the exception it
\* ends with: lines 32-115 read the columns town, release_hour,
\* substance_category, cause_category and release_year, and lines 91 and
\* 107 divide by len(data).  top_towns is the head(10) of the town counts.
\* confirmed holds the findings a line of the output calls confirmed.
main(data, top_towns) ==
    LET total == Len(data.rows)
        sc == value_counts(data, "substance_category")
        cc == value_counts(data, "cause_category")
        hc == HourlyCounts(data)
        shares(counts) ==
            Cells(DOMAIN counts,
                  [v \in DOMAIN counts |-> PrintedShare(counts[v], total)])
        nothing == [kind |-> "main", raised |-> "none",
                    total_incidents |-> total,
                    top_towns |-> {}, found_expected |-> {},
                    hourly_counts |-> <<>>, peak_hour |-> Null,
                    listed_hours |-> {},
                    substance_counts |-> <<>>, substance_shares |-> <<>>,
                    cause_counts |-> <<>>, cause_shares |-> <<>>,
                    confirmed |-> {}]
        towns == [nothing EXCEPT !.top_towns = top_towns,
                                 !.found_expected = expected_towns \cap top_towns]
        hours == [towns EXCEPT !.hourly_counts = hc,
                               !.peak_hour = PeakHour(hc),
                               !.listed_hours = ListedHours(hc)]
    IN  IF ~HasCol(data, "town")
        THEN [nothing EXCEPT !.raised = "KeyError"]
        ELSE IF ~HasCol(data, "release_hour")
        THEN [towns EXCEPT !.raised = "KeyError"]
        ELSE IF ~HasCol(data, "substance_category")
        THEN [hours EXCEPT !.raised = "KeyError"]
        ELSE IF total = 0
        THEN [hours EXCEPT !.raised = "ZeroDivisionError",
                           !.substance_counts = sc]
        ELSE IF ~HasCol(data, "cause_category")
        THEN [hours EXCEPT !.raised = "KeyError",
                           !.substance_counts = sc,
                           !.substance_shares = shares(sc),
                           !.confirmed = {"petroleum"}]
        ELSE IF ~HasCol(data, "release_year")
        THEN [hours EXCEPT !.raised = "KeyError",
                           !.substance_counts = sc,
                           !.substance_shares = shares(sc),
                           !.cause_counts = cc,
                           !.cause_shares = shares(cc),
                           !.confirmed = {"petroleum", "motor vehicle"}]
        ELSE [hours EXCEPT !.substance_counts = sc,
                           !.substance_shares = shares(sc),
                           !.cause_counts = cc,
                           !.cause_shares = shares(cc),
                           !.confirmed = {"petroleum", "motor vehicle",
                                          "top towns", "all findings"}]

\* ------------------------------- create_comprehensive_dashboard_data

\* The values of a value_counts that can be its index[0]: those with the
\* highest count.
MostFrequent(counts) ==
    {v \in DOMAIN counts : \A w \in DOMAIN counts : counts[w] <= counts[v]}

\* The exception the dashboard summary ends with, "none" without one: the
\* entries of the dictionary are computed in the order written.
DashboardError(data) ==
    IF ~({"total_quantity_equivalent", "town"} \subseteq data.cols)
    THEN "KeyError"
    ELSE IF MostFrequent(value_counts(data, "town")) = {} THEN "IndexError"
    ELSE IF ~({"release_hour", "cause_category"} \subseteq data.cols)
    THEN "KeyError"
    ELSE IF MostFrequent(value_counts(data, "cause_category")) = {}
    THEN "IndexError"
    ELSE IF ~HasCol(data, "substance_category") THEN "KeyError"
    ELSE IF MostFrequent(value_counts(data, "substance_category")) = {}
    THEN "IndexError"
    ELSE IF ~({"case_number", "release_datetime"} \subseteq data.cols)
    THEN "KeyError"
    ELSE "none"

\* ------------------------------------------------------- the report actions

\* save_cleaned_data is called when process_all has returned or raised
\* (lines 438-444): the cleaned table is written, if there is one
SaveCleanedData ==
    /\ pc \in {"done", "raised"}
    /\ clean_csv' = IF cleaned_df # NoDf THEN to_csv(cleaned_df) ELSE clean_csv
    /\ pc' = IF cleaned_df # NoDf THEN "saved" ELSE "not_saved"
    /\ UNCHANGED <<file, df, cleaned_df, args, raised, before, report, first, fnVars>>

\* get_data_summary (lines 446-459): None without cleaned table, else the
\* counts of non-null, null and distinct values of each column (the dtype
\* of the column is left out)
NoSummary == [none |-> TRUE]
get_data_summary(tbl) ==
    IF tbl = NoDf THEN NoSummary
    ELSE Cells(tbl.cols,
               [k \in tbl.cols |->
                   LET present == {i \in 1..Len(tbl.rows) : ~isna(tbl.rows[i].c[k])}
                   IN  [Non_Null_Count |-> Cardinality(present),
                        Null_Count |-> Len(tbl.rows) - Cardinality(present),
                        Unique_Values |->
                            Cardinality({tbl.rows[i].c[k] : i \in present})]])

\* get_data_summary is called when process_all has returned or raised.
GetDataSummary ==
    /\ pc \in {"done", "raised"}
    /\ report' = [kind |-> "summary", raised |-> "none",
                  result |-> get_data_summary(cleaned_df)]
    /\ pc' = "summarised"
    /\ UNCHANGED <<file, df, cleaned_df, args, raised, before, clean_csv, first, fnVars>>

\* The report script runs on the saved file (run_research.py lines 20-129):
\* a file that does not load ends it without exception.
RunResearch ==
    /\ pc = "saved"
    /\ IF LoadError(clean_csv) # "none"
       THEN report' = [kind |-> "main", raised |-> "none", loaded |-> FALSE]
       ELSE LET data == read_csv(clean_csv)
            IN  \E top \in (IF HasCol(data, "town")
                            THEN HeadSets(value_counts(data, "town"), 10)
                            ELSE {{}}) :
                    report' = main(data, top)
    /\ pc' = "reported"
    /\ UNCHANGED <<file, df, cleaned_df, args, raised, before, clean_csv, first, fnVars>>

\* SpillVisualization(cleaned_data).create_comprehensive_dashboard_data()
\* (visualization.py lines 494-516) on the table process_all returned
CreateDashboardData ==
    /\ pc = "done"
    /\ IF DashboardError(cleaned_df) # "none"
       THEN report' = [kind |-> "dashboard",
                       raised |-> DashboardError(cleaned_df)]
       ELSE \E tt \in MostFrequent(value_counts(cleaned_df, "town")),
               pcause \in MostFrequent(value_counts(cleaned_df, "cause_category")),
               ps \in MostFrequent(value_counts(cleaned_df, "substance_category")) :
               report' = [kind |-> "dashboard", raised |-> "none",
                          total_incidents |-> Len(cleaned_df.rows),
                          top_town |-> tt,
                          primary_cause |-> pcause,
                          primary_substance |-> ps]
    /\ pc' = "dashboard"
    /\ UNCHANGED <<file, df, cleaned_df, args, raised, before, clean_csv, first, fnVars>>

\* ------------------------------------------------------- a second run

\* How a process_all call ended: the table it returned (NoDf when it
\* raised), its exception, its arguments, and whether the next call is on
\* a fresh processor.
Ended(fresh) ==
    [none |-> FALSE, table |-> cleaned_df, raised |-> raised, args |-> args,
     fresh |-> fresh]

\* A constructor that leaves the table of the earlier processor in place,
\* as a table kept on the class would be.
NewProcessor_sharing_table ==
    /\ pc \in {"done", "raised"}
    /\ first = NoRun
    /\ first' = Ended(TRUE)
    /\ cleaned_df' = NoDf
    /\ pc' = "idle"
    /\ args' = NoArgs
    /\ raised' = "none"
    /\ before' = NoDf
    /\ UNCHANGED <<file, df, clean_csv, report, fnVars>>

\* A new processor is constructed on the same raw file (lines 30-32) once
\* the first has returned or raised.
NewProcessor ==
    /\ pc \in {"done", "raised"}
    /\ first = NoRun
    /\ first' = Ended(TRUE)
    /\ df' = NoDf
    /\ cleaned_df' = NoDf
    /\ pc' = "idle"
    /\ args' = NoArgs
    /\ raised' = "none"
    /\ before' = NoDf
    /\ UNCHANGED <<file, clean_csv, report, fnVars>>

\* process_all has returned and the same processor, its data loaded and
\* processed, is about to be called again (lines 403-405 skip the load).
CallAgain ==
    /\ pc = "done"
    /\ first = NoRun
    /\ first' = Ended(FALSE)
    /\ pc' = "idle"
    /\ before' = df
    /\ UNCHANGED <<file, df, cleaned_df, args, raised, clean_csv, report, fnVars>>

RerunNext ==
    \/ Next
    \/ NewProcessor
    \/ CallAgain

ReportNext ==
    \/ Next
    \/ SaveCleanedData
    \/ GetDataSummary
    \/ RunResearch
    \/ CreateDashboardData

\* ------------------------------------------------------------ the input files

H_RD == "Release date and time"
H_DR == "Date Reported Time Reported"
H_TOWN == "Town of Release"
H_STATE == "State of Release"
H_SUBST == "Release Substance"
H_CAUSE == "Cause Info"
H_PARTY == "Responsibile Party/Discharger"
H_GAL == "Total Quantity Gallons"
H_YDS == "Total Quantity Yards"
H_FEET == "Total Quantity Feet"
H_DRUMS == "Total Quantity Drums"
H_LBS == "Total Quantity Pounds"
H_REF == "Incident ID/Ref"

QuantityHeaders == {H_GAL, H_YDS, H_FEET, H_DRUMS, H_LBS}
FullHeaders ==
    {H_RD, H_DR, H_TOWN, H_STATE, H_SUBST, H_CAUSE, H_PARTY, H_REF} \cup QuantityHeaders

Empty == Str(<<>>)

\* An ordinary row of the file: every cell present and well formed, the
\* quantities other than gallons left empty.
BaseRow ==
    [h \in FullHeaders |->
        CASE h = H_RD -> DateText(2020, 3, 5, 14, 3, 19070)
          [] h = H_DR -> DateText(2020, 3, 5, 16, 3, 19072)
          [] h = H_TOWN -> Str(<<"G","r","o","t","o","n">>)
          [] h = H_STATE -> Str(<<"C","T">>)
          [] h = H_SUBST -> Str(<<"d","i","e","s","e","l"," ","f","u","e","l">>)
          [] h = H_CAUSE -> Str(<<"e","q","u","i","p","m","e","n","t"," ","f","a","i","l","u","r","e">>)
          [] h = H_PARTY -> Str(<<"A","c","m","e">>)
          [] h = H_GAL -> Str(<<"5">>)
          [] h = H_REF -> Str(<<"r","1">>)
          [] OTHER -> Empty]

Override(row, h, cell) == [row EXCEPT ![h] = cell]

\* Rows that differ in the release date: missing, no date, and dates on and
\* around the year bounds; and a row without a report date.
DateCells ==
    {Empty, Str(<<"t","b","d">>),
     DateText(2018, 12, 31, 23, 0, 8759), DateText(2019, 1, 1, 0, 1, 8760),
     DateText(2022, 12, 31, 18, 5, 43818), DateText(2023, 1, 1, 6, 6, 43830)}
DateRows ==
    {Override(BaseRow, H_RD, x) : x \in DateCells}
    \cup {Override(BaseRow, H_DR, Empty)}

\* Rows that differ in town, state and responsible party.
TownCells == {Empty, Str(<<" ","g","r","o","t","o","n",","," ","c","t"," ">>), Str(<<"W","e","s","t","p","o","r","t">>)}
StateCells == {Empty, Str(<<"c","t"," ">>)}
TownRows ==
    {Override(Override(BaseRow, H_TOWN, x), H_STATE, y) :
        x \in TownCells, y \in StateCells}
    \cup {Override(BaseRow, H_PARTY, Empty)}

\* Rows that differ in substance and cause: missing, keywords of two groups,
\* no keyword.
SubstanceCells == {Empty, Str(<<"W","a","s","t","e"," ","o","i","l">>), Str(<<"s","a","n","d">>)}
CauseCells == {Empty, Str(<<"m","v"," ","h","i","t"," ","e","q","u","i","p","m","e","n","t">>), Str(<<"v","a","n","d","a","l","i","s","m">>)}
CategoryRows ==
    {Override(Override(BaseRow, H_SUBST, x), H_CAUSE, y) :
        x \in SubstanceCells, y \in CauseCells}

\* A row with a quantity in every unit.
FullRow ==
    [BaseRow EXCEPT ![H_YDS] = Str(<<"2">>), ![H_FEET] = Str(<<"1",".","5">>),
                    ![H_DRUMS] = Str(<<"3">>), ![H_LBS] = Str(<<"5","0">>)]

\* Rows that differ in the quantities: gallons missing, negative, with an
\* exponent, with two decimal points, fractional, with a unit; and each
\* other unit in turn.
GallonCells == {Empty, Str(<<"-","5">>), Str(<<"1","e","3">>), Str(<<"1",".","2",".","3">>), Str(<<"2",".","5">>), Str(<<"5"," ","g","a","l">>)}
QuantityRows ==
    {Override(BaseRow, H_GAL, x) : x \in GallonCells}
    \cup {Override(BaseRow, h, FullRow[h]) : h \in QuantityHeaders \ {H_GAL}}
    \cup {FullRow}

\* Files that lack some columns; their rows are FullRow.
HeaderChoices ==
    {FullHeaders,
     FullHeaders \ {H_YDS, H_FEET},
     FullHeaders \ QuantityHeaders,
     FullHeaders \ {H_PARTY, H_STATE, H_REF},
     FullHeaders \ {H_TOWN},
     FullHeaders \ {H_SUBST},
     FullHeaders \ {H_DR},
     FullHeaders \ {H_RD}}

\* The files of n rows drawn from `rows`, with the columns hdrs.
FilesOf(rows, hdrs, n) ==
    {Table(hdrs, [i \in 1..n |-> [idx |-> i - 1,
                                  c |-> [h \in hdrs |-> f[i][h]]]]) :
        f \in [1..n -> rows]}

WideFiles ==
    UNION {FilesOf(rows, FullHeaders, n) :
              rows \in {DateRows, TownRows, CategoryRows, QuantityRows},
              n \in 0..MaxRows}
    \cup UNION {FilesOf({FullRow}, hdrs, n) :
                   hdrs \in HeaderChoices, n \in 0..MaxRows}

\* Rows that differ in the release year (inside and outside the bounds)
\* and in the gallons.
LongRows ==
    {Override(Override(BaseRow, H_RD, d), H_GAL, g) :
        d \in {BaseRow[H_RD], DateText(2023, 1, 1, 6, 6, 43830)},
        g \in {Str(<<"1">>), Str(<<"1","0","0">>)}}

\* The file whose gallons are 1, 2, 3, 4, 100.
ExampleFile ==
    Table(FullHeaders,
          [i \in 1..5 |->
              [idx |-> i - 1,
               c |-> Override(BaseRow, H_GAL,
                              <<Str(<<"1">>), Str(<<"2">>), Str(<<"3">>), Str(<<"4">>), Str(<<"1","0","0">>)>>[i])]])

\* A file of three rows: no release date, then the first and the last day
\* of the default year bounds; the second row has no town.
MedianFile ==
    Table(FullHeaders,
          [i \in 1..3 |->
              [idx |-> i - 1,
               c |-> <<Override(BaseRow, H_RD, Empty),
                       Override(Override(BaseRow, H_RD,
                                         DateText(2019, 1, 1, 0, 1, 8760)),
                                H_TOWN, Empty),
                       Override(BaseRow, H_RD,
                                DateText(2022, 12, 31, 18, 5, 43818))>>[i]]])

LongFiles ==
    UNION {FilesOf(LongRows, FullHeaders, n) : n \in 0..MaxLongRows}
    \cup {ExampleFile}

\* ----------------------------------------------------------- specifications

FnOff ==
    /\ fnKind = "none"
    /\ fnArg = Null
    /\ fnLen = 0
    /\ fnGrow = FALSE
    /\ fnRes = NoRes

\* A processor just constructed (lines 30-32) on some file.
PipelineIdle ==
    /\ df = NoDf
    /\ cleaned_df = NoDf
    /\ pc = "idle"
    /\ args = NoArgs
    /\ raised = "none"
    /\ before = NoDf
    /\ clean_csv = NoFile
    /\ report = NoReport
    /\ first = NoRun

\* process_all on files of few rows with every kind of cell, on a file of
\* three rows with two release dates, on a missing file and on an
\* unparsable one.
Init ==
    /\ file \in WideFiles \cup {MedianFile, NoFile, UnparsableFile}
    /\ PipelineIdle
    /\ FnOff

Spec == Init /\ [][Next]_vars

\* process_all on longer files whose rows differ in year and gallons.
LongInit ==
    /\ file \in LongFiles
    /\ PipelineIdle
    /\ FnOff

LongSpec == LongInit /\ [][Next]_vars

\* Rows of a file with a case number: an ordinary one, one of the year
\* 2023, one without substance and cause, one with another substance and
\* cause.
H_CASE == "Case No."
ReportHeaders == FullHeaders \cup {H_CASE}
ReportBaseRow == (H_CASE :> Str(<<"c","1">>)) @@ BaseRow
ReportRows ==
    {ReportBaseRow,
     Override(ReportBaseRow, H_RD, DateText(2023, 1, 1, 6, 6, 43830)),
     Override(Override(ReportBaseRow, H_SUBST, Empty), H_CAUSE, Empty),
     Override(Override(ReportBaseRow, H_SUBST, Str(<<"s","a","n","d">>)),
              H_CAUSE, Str(<<"m","v"," ","h","i","t"," ","e","q","u","i","p","m","e","n","t">>))}

ReportFiles ==
    UNION {FilesOf(ReportRows, ReportHeaders, n) : n \in 0..MaxReportRows}

\* A file of two rows whose first town is ' NA' (a text to read_csv, which
\* does not trim) and whose second town is blank.
NaTownFile ==
    Table(ReportHeaders,
          [i \in 1..2 |->
              [idx |-> i - 1,
               c |-> <<Override(ReportBaseRow, H_TOWN, Str(<<" ","N","A">>)),
                       Override(ReportBaseRow, H_TOWN, Str(<<" "," ">>))>>[i]]])

\* process_all, then save_cleaned_data and the report script, or
\* get_data_summary, or the dashboard summary, on files of rows with
\* differing year and categories and on files that make process_all raise.
\* Files on which process_all raises at one step or another: no file,
\* a column missing, a town column without any text.
FailingFiles ==
    {NoFile, UnparsableFile}
    \cup UNION {FilesOf({FullRow}, hdrs, 1) : hdrs \in HeaderChoices \ {FullHeaders}}
    \cup FilesOf({Override(FullRow, H_TOWN, Empty)}, FullHeaders, 1)

\* A file of seven rows released at the hours 0, 1, 2, 3, 4, 14 and 14.
HoursFile ==
    Table(ReportHeaders,
          [i \in 1..7 |->
              [idx |-> i - 1,
               c |-> LET h == <<0, 1, 2, 3, 4, 14, 14>>[i]
                     IN  Override(ReportBaseRow, H_RD,
                                  DateText(2020, 3, 5, h, 3, 19056 + h))]])

ReportInit ==
    /\ file \in ReportFiles \cup {NaTownFile, HoursFile} \cup FailingFiles
    /\ PipelineIdle
    /\ FnOff

ReportSpec == ReportInit /\ [][ReportNext]_vars

\* The file whose gallons are 1, 1, 1, 2, 5.
TwiceOutlierFile ==
    Table(FullHeaders,
          [i \in 1..5 |->
              [idx |-> i - 1,
               c |-> Override(BaseRow, H_GAL,
                              <<Str(<<"1">>), Str(<<"1">>), Str(<<"1">>), Str(<<"2">>), Str(<<"5">>)>>[i])]])

\* The rows of the report files with the ordinary substance and with none.
RerunRows == {r \in ReportRows : r[H_SUBST] \in {BaseRow[H_SUBST], Empty}}

RerunFiles ==
    UNION {FilesOf(RerunRows, ReportHeaders, n) : n \in 0..MaxRerunRows}
    \cup {MedianFile, TwiceOutlierFile, NoFile}
    \cup UNION {FilesOf({FullRow}, hdrs, 1) : hdrs \in HeaderChoices}

\* process_all, then a second call of it on a new processor or on the same
\* one.
RerunInit ==
    /\ file \in RerunFiles
    /\ PipelineIdle
    /\ FnOff

RerunSpec == RerunInit /\ [][RerunNext]_vars

\* ============================================================== properties

\* A keyword group of a categoriser: its label and its keywords.
Group(label, keywords) == [label |-> label, keywords |-> keywords]

\* The label of the first group, in the order given, one of whose keywords
\* occurs in s; `other` when no group has one.
RECURSIVE FirstGroup(_, _, _)
FirstGroup(groups, s, other) ==
    IF groups = <<>> THEN other
    ELSE IF \E kw \in Head(groups).keywords : In(kw, s)
         THEN Head(groups).label
         ELSE FirstGroup(Tail(groups), s, other)

\* ------------------------------------------------- C5: _categorize_substance

C5_Groups ==
    << Group("Petroleum Products",
             { <<"G","A","S","O","L","I","N","E">>, <<"D","I","E","S","E","L">>,
               <<"F","U","E","L">>, <<"O","I","L">>,
               <<"P","E","T","R","O","L","E","U","M">>,
               <<"H","Y","D","R","A","U","L","I","C">> }),
       Group("Chemicals",
             { <<"C","H","E","M","I","C","A","L">>, <<"A","C","I","D">>,
               <<"S","O","L","V","E","N","T">>, <<"P","A","I","N","T">> }),
       Group("Waste Products",
             { <<"W","A","S","T","E">>, <<"S","E","W","A","G","E">> }) >>

\* C5: for every non-null text, _categorize_substance returns the label of
\* the first of the groups Petroleum Products, Chemicals, Waste Products that
\* has a keyword occurring in the upper-cased text, and Other when none has;
\* 'DIESEL FUEL SPILL' gives Petroleum Products.
C5_SubstanceFirstMatchWins ==
    fnRes.f = "substance" =>
        /\ ~isna(fnArg) =>
              fnRes.v = FirstGroup(C5_Groups, upper(fnArg.s), "Other")
        /\ fnArg = Str(<<"D","I","E","S","E","L"," ","F","U","E","L"," ",
                         "S","P","I","L","L">>)
              => fnRes.v = "Petroleum Products"

\* A text that names a Chemicals keyword before a lower-case Petroleum keyword
\* has been categorised as Petroleum Products.
C5_MixedTextTakesPetroleum ==
    /\ fnRes = Res("substance", "Petroleum Products")
    /\ fnArg = Str(<<"A","C","I","D","d","i","e","s","e","l">>)

\* ----------------------------------------------------- C6: _categorize_cause

C6_Groups ==
    << Group("Motor Vehicle Accident",
             { <<"M","V">>,
               <<"M","O","T","O","R"," ","V","E","H","I","C","L","E">>,
               <<"A","C","C","I","D","E","N","T">> }),
       Group("Equipment Failure",
             { <<"E","Q","U","I","P","M","E","N","T">>,
               <<"F","A","I","L","U","R","E">>,
               <<"M","E","C","H","A","N","I","C","A","L">> }),
       Group("Human Error",
             { <<"H","U","M","A","N">>, <<"O","P","E","R","A","T","O","R">>,
               <<"E","R","R","O","R">> }),
       Group("Natural Causes",
             { <<"W","E","A","T","H","E","R">>,
               <<"N","A","T","U","R","A","L">> }) >>

\* C6: for every non-null text, _categorize_cause returns the label of the
\* first of the groups Motor Vehicle Accident, Equipment Failure, Human Error,
\* Natural Causes that has a keyword occurring in the upper-cased text, and
\* Other when none has; 'MOTOR VEHICLE ACCIDENT ON I-95' gives Motor Vehicle
\* Accident.
C6_CauseFirstMatchWins ==
    fnRes.f = "cause" =>
        /\ ~isna(fnArg) =>
              fnRes.v = FirstGroup(C6_Groups, upper(fnArg.s), "Other")
        /\ fnArg = Str(<<"M","O","T","O","R"," ","V","E","H","I","C","L","E",
                         " ","A","C","C","I","D","E","N","T"," ","O","N"," ",
                         "I","-","9","5">>)
              => fnRes.v = "Motor Vehicle Accident"

\* A text holding EQUIPMENT and, after it, ACCIDENT has been categorised as
\* Motor Vehicle Accident.
C6_EquipmentAccidentTakesMotorVehicle ==
    /\ fnRes = Res("cause", "Motor Vehicle Accident")
    /\ fnArg = Str(<<"E","Q","U","I","P","M","E","N","T",
                     "A","C","C","I","D","E","N","T">>)

\* -------------------------------------------------------- C7: _assign_region

\* The five town lists with their regions, in the order of priority C7 states.
C7_Groups ==
    << Group("Eastern Connecticut", SeqToSet(eastern_towns)),
       Group("Western Connecticut", SeqToSet(western_towns)),
       Group("Central Connecticut", SeqToSet(central_towns)),
       Group("Northern Connecticut", SeqToSet(northern_towns)),
       Group("Southern Connecticut", SeqToSet(southern_towns)) >>

\* No town belongs to two lists, and no entry of a list occurs inside an
\* entry of another list.
C7_ListsApart ==
    \A i, j \in 1..Len(C7_Groups) :
        i # j =>
            \A a \in C7_Groups[i].keywords, b \in C7_Groups[j].keywords :
                a # b /\ ~In(a, b)

\* A town that is exactly an entry of a list is assigned that list's region.
C7_EntriesGetOwnRegion ==
    \A i \in 1..Len(C7_Groups) :
        \A a \in C7_Groups[i].keywords :
            _assign_region(Str(a)) = C7_Groups[i].label

\* C7: _assign_region returns the region of the first of the lists Eastern,
\* Western, Central, Northern, Southern that has an entry occurring in the
\* upper-cased town, 'Other Connecticut' when none has and 'Unknown' for a
\* null town; 'GROTON, CT' gives 'Eastern Connecticut'; the lists are
\* pairwise disjoint with no entry inside an entry of another list, and an
\* exact list entry gets the region of its own list.
C7_RegionFirstMatchWins ==
    fnRes.f = "town" =>
        /\ fnRes.v = IF isna(fnArg) THEN "Unknown"
                     ELSE FirstGroup(C7_Groups, upper(fnArg.s),
                                     "Other Connecticut")
        /\ fnArg = Str(<<"G","R","O","T","O","N",","," ","C","T">>)
              => fnRes.v = "Eastern Connecticut"
        /\ C7_ListsApart
        /\ C7_EntriesGetOwnRegion

\* A town text holding a western entry and, after it, an eastern entry has
\* been assigned to Eastern Connecticut.
C7_StamfordGrotonTakesEastern ==
    /\ fnRes = Res("town", "Eastern Connecticut")
    /\ fnArg = Str(<<"S","T","A","M","F","O","R","D","G","R","O","T","O","N">>)

\* ------------------------------------------------ C8: quantity cell cleaning

\* The text of a cell with every character that is neither a digit nor a
\* decimal point deleted.
C8_Remainder(cell) ==
    SelectSeq(StrOf(cell), LAMBDA ch : IsDigit(ch) \/ ch = ".")

\* A remainder that is a number: at least one digit, at most one point.
C8_IsNumber(r) ==
    /\ \E i \in 1..Len(r) : IsDigit(r[i])
    /\ Cardinality({i \in 1..Len(r) : r[i] = "."}) <= 1

\* The value of such a remainder, digit by digit, in units of 1/QScale.
RECURSIVE C8_Sum(_, _, _)
C8_Sum(r, point, i) ==
    IF i > Len(r) THEN 0
    ELSE (IF i < point THEN DigitVal(r[i]) * QScale * Pow10(point - 1 - i)
          ELSE IF i > point THEN (DigitVal(r[i]) * QScale) \div Pow10(i - point)
          ELSE 0)
         + C8_Sum(r, point, i + 1)

C8_Value(r) ==
    LET points == {i \in 1..Len(r) : r[i] = "."}
        point == IF points = {} THEN Len(r) + 1 ELSE CHOOSE i \in points : TRUE
    IN  C8_Sum(r, point, 1)

\* C8: a quantity cell is cleaned to the number its text is after deleting
\* every character that is neither a digit nor a decimal point; to 0 when
\* that remainder is empty or is no number, or when the cell is missing; the
\* result is never null, and '1,250 gal' becomes 1250.0.
C8_QuantityCellCleaned ==
    fnRes.f = "quantity" =>
        /\ ~isna(fnRes.v)
        /\ fnRes.v = IF isna(fnArg) \/ ~C8_IsNumber(C8_Remainder(fnArg))
                     THEN Num(0)
                     ELSE Num(C8_Value(C8_Remainder(fnArg)))
        /\ fnArg = Str(<<"1",",","2","5","0"," ","g","a","l">>)
              => fnRes.v = Num(1250 * QScale)

\* The cell '1..', whose two decimal points make it no number, has been
\* cleaned to 0.
C8_TwoPointsCleanedToZero ==
    /\ fnRes = Res("quantity", Num(0))
    /\ fnArg = Str(<<"1",".",".">>)

\* --------------------------------------------- C10: _categorize_time_period

\* C10: every whole hour 0..23 gets the label of its half-open bucket, 0-5
\* Night, 6-11 Morning, 12-17 Afternoon, 18-23 Evening, and a null hour
\* gets 'Unknown'.
C10_TimePeriodBuckets ==
    fnRes.f = "hour" =>
        fnRes.v = IF isna(fnArg) THEN "Unknown"
                  ELSE LET h == fnArg.n \div QScale
                       IN  CASE h \in 0..5 -> "Night (00:00-06:00)"
                             [] h \in 6..11 -> "Morning (06:00-12:00)"
                             [] h \in 12..17 -> "Afternoon (12:00-18:00)"
                             [] h \in 18..23 -> "Evening (18:00-24:00)"

\* Hour 18 has been categorised as Evening.
C10_Hour18IsEvening ==
    /\ fnArg = Num(18 * QScale)
    /\ fnRes = Res("hour", "Evening (18:00-24:00)")

\* --------------------------------------------------- the steps of process_all

\* The rows of a table, as a set.
RowsOf(tbl) == {tbl.rows[i] : i \in 1..Len(tbl.rows)}

\* The steps of process_all that follow clean_numeric_columns, the end
\* included.
AfterNumeric ==
    {"clean_categorical_columns", "filter_research_timeframe",
     "handle_missing_values", "remove_outliers", "create_derived_features",
     "store", "validate_data_quality", "done"}

\* The steps that follow filter_research_timeframe, the end included.
AfterFilter ==
    {"handle_missing_values", "remove_outliers", "create_derived_features",
     "store", "validate_data_quality", "done"}

\* ------------------------------------------------ C1: categories are never null

C1_SubstanceLabels ==
    {"Petroleum Products", "Chemicals", "Waste Products", "Other", "Unknown"}
C1_CauseLabels ==
    {"Motor Vehicle Accident", "Equipment Failure", "Human Error",
     "Natural Causes", "Other", "Unknown"}

\* A category cell holds one of the labels.
C1_IsLabel(cell, labels) == cell.t = "l" /\ cell.l \in labels

\* No keyword of any group occurs in the text of a cell.
C1_NoKeyword(groups, cell) ==
    LET text == upper(StrOf(cell))
    IN  \A g \in 1..Len(groups) :
            \A kw \in groups[g].keywords : ~In(kw, text)

\* The category of a source cell where C1 fixes it: 'Unknown' for a null
\* cell, 'Other' for a text without keyword.
C1_Categorised(src, cat, groups) ==
    /\ isna(src) => cat = Lab("Unknown")
    /\ ~isna(src) /\ C1_NoKeyword(groups, src) => cat = Lab("Other")

\* C1: once clean_categorical_columns has run on a table with a substance
\* and a cause column, every row has a substance_category and a
\* cause_category that are labels of the two fixed sets, 'Unknown' where the
\* source text was null and 'Other' where it was a text without keyword; and
\* every row of the table process_all returns has such labels, 'Unknown'
\* where its cell in the file was missing and 'Other' where that cell was a
\* text without keyword.
C1_CategoriesNeverNull ==
    /\ ( /\ pc = "filter_research_timeframe"
         /\ HasCol(before, "substance")
         /\ HasCol(before, "cause") )
       => /\ Len(df.rows) = Len(before.rows)
          /\ \A i \in 1..Len(df.rows) :
                LET c == df.rows[i].c
                    b == before.rows[i].c
                IN  /\ C1_IsLabel(c["substance_category"], C1_SubstanceLabels)
                    /\ C1_IsLabel(c["cause_category"], C1_CauseLabels)
                    /\ C1_Categorised(b["substance"], c["substance_category"],
                                      C5_Groups)
                    /\ C1_Categorised(b["cause"], c["cause_category"],
                                      C6_Groups)
    /\ pc = "done"
       => \A r \in RowsOf(cleaned_df) :
             LET src == file.rows[r.idx + 1].c
             IN  /\ C1_IsLabel(r.c["substance_category"], C1_SubstanceLabels)
                 /\ C1_IsLabel(r.c["cause_category"], C1_CauseLabels)
                 /\ C1_Categorised(
                        IF IsMissingText(src[H_SUBST]) THEN Null
                        ELSE src[H_SUBST],
                        r.c["substance_category"], C5_Groups)
                 /\ C1_Categorised(
                        IF IsMissingText(src[H_CAUSE]) THEN Null
                        ELSE src[H_CAUSE],
                        r.c["cause_category"], C6_Groups)

\* process_all has returned a table with a row whose substance was missing
\* in the file and is categorised 'Unknown', and a row whose cause is a
\* text without keyword and is categorised 'Other'.
C1_UnknownAndOtherReturned ==
    /\ pc = "done"
    /\ \E r \in RowsOf(cleaned_df) :
          /\ file.rows[r.idx + 1].c[H_SUBST] = Empty
          /\ r.c["substance_category"] = Lab("Unknown")
    /\ \E r \in RowsOf(cleaned_df) :
          /\ file.rows[r.idx + 1].c[H_CAUSE]
                = Str(<<"v","a","n","d","a","l","i","s","m">>)
          /\ r.c["cause_category"] = Lab("Other")

\* --------------------------------------------- C2: quantities are never negative

\* Every quantity column the table has, and the total, hold a number >= 0
\* in every row.
C2_NonNegative(tbl) ==
    \A r \in RowsOf(tbl) :
        /\ \A i \in 1..Len(quantity_columns) :
              HasCol(tbl, quantity_columns[i]) =>
                  /\ r.c[quantity_columns[i]].t = "n"
                  /\ r.c[quantity_columns[i]].n >= 0
        /\ r.c["total_quantity_equivalent"].t = "n"
        /\ r.c["total_quantity_equivalent"].n >= 0

\* C2: whatever the quantity cells of the file hold, after
\* clean_numeric_columns every cleaned quantity is a number >= 0 and
\* total_quantity_equivalent is >= 0, up to and in the table process_all
\* returns.
C2_QuantitiesNonNegative ==
    /\ pc \in AfterNumeric => C2_NonNegative(df)
    /\ ( /\ pc = "raised"
         /\ df # NoDf
         /\ HasCol(df, "total_quantity_equivalent") )
       => C2_NonNegative(df)
    /\ pc = "done" => C2_NonNegative(cleaned_df)

\* process_all has returned a row whose gallons cell was '-5' in a file
\* whose gallons column read_csv took as numbers; its quantity is 5.
C2_MinusFiveReturnedAsFive ==
    /\ pc = "done"
    /\ HasCol(file, H_GAL)
    /\ \A i \in 1..Len(file.rows) : file.rows[i].c[H_GAL] = Str(<<"-","5">>)
    /\ \E r \in RowsOf(cleaned_df) :
          /\ r.c["quantity_gallons"] = Num(5 * QScale)
          /\ r.c["total_quantity_equivalent"] = Num(5 * TScale)

\* ------------------------------------------------------- C3: the year filter

\* A release_year cell is a year of the inclusive range of the call.
C3_YearInBounds(year) ==
    /\ year.t = "n"
    /\ args.start_year * QScale <= year.n
    /\ year.n <= args.end_year * QScale

\* C3: with the year filter on, filter_research_timeframe keeps exactly the
\* rows whose release_year is non-null and within the inclusive bounds, in
\* their order, and every row of every later table, the returned one
\* included, has such a year.
C3_YearFilterInclusive ==
    /\ pc = "handle_missing_values" /\ args.filter_timeframe
       => df.rows = SelectSeq(before.rows,
                        LAMBDA r : C3_YearInBounds(r.c["release_year"]))
    /\ pc \in AfterFilter /\ args.filter_timeframe
       => \A r \in RowsOf(df) : C3_YearInBounds(r.c["release_year"])
    /\ pc = "done" /\ args.filter_timeframe
       => \A r \in RowsOf(cleaned_df) : C3_YearInBounds(r.c["release_year"])

\* process_all(2019, 2022) has returned, of a file whose first row is of
\* 2023-01-01 and whose second row is of 2022-12-31, the second row only.
C3_Row2023DroppedRow2022Kept ==
    /\ pc = "done"
    /\ args.filter_timeframe
    /\ args.start_year = 2019 /\ args.end_year = 2022
    /\ Len(file.rows) = 2
    /\ file.rows[1].c[H_RD] = DateText(2023, 1, 1, 6, 6, 43830)
    /\ file.rows[2].c[H_RD] = DateText(2022, 12, 31, 18, 5, 43818)
    /\ Len(cleaned_df.rows) = 1
    /\ cleaned_df.rows[1].idx = 1
    /\ cleaned_df.rows[1].c["release_year"] = Num(2022 * QScale)

\* ------------------------------------------------ C9: the total in gallons

\* The cleaned quantity of a row in a unit, 0 when the table has no column
\* for the unit.
C9_Quantity(tbl, r, col) == IF col \in tbl.cols THEN r.c[col].n ELSE 0

\* gallons + yards*202 + feet*7.48 + drums*55 + pounds*0.12 of a row, in
\* hundredths of a quantity unit.
C9_Total(tbl, r) ==
    100 * C9_Quantity(tbl, r, "quantity_gallons")
    + 202 * 100 * C9_Quantity(tbl, r, "quantity_yards")
    + 748 * C9_Quantity(tbl, r, "quantity_feet")
    + 55 * 100 * C9_Quantity(tbl, r, "quantity_drums")
    + 12 * C9_Quantity(tbl, r, "quantity_pounds")

C9_TotalsRight(tbl) ==
    \A r \in RowsOf(tbl) :
        r.c["total_quantity_equivalent"] = Num(C9_Total(tbl, r))

\* C9: in every row, total_quantity_equivalent is gallons + yards*202 +
\* feet*7.48 + drums*55 + pounds*0.12 of the cleaned quantities of that row,
\* a quantity column the table lacks counting as 0.
C9_TotalIsLinearCombination ==
    /\ pc \in AfterNumeric => C9_TotalsRight(df)
    /\ pc = "done" => C9_TotalsRight(cleaned_df)

\* process_all has returned, of a file without the yards and feet columns,
\* a row with 5 gallons, 3 drums and 50 pounds: its total is
\* 5 + 3*55 + 50*0.12 = 176.
C9_TotalWithoutYardsAndFeet ==
    /\ pc = "done"
    /\ ~HasCol(cleaned_df, "quantity_yards")
    /\ ~HasCol(cleaned_df, "quantity_feet")
    /\ {"quantity_gallons", "quantity_drums", "quantity_pounds"}
          \subseteq cleaned_df.cols
    /\ \E r \in RowsOf(cleaned_df) :
          /\ r.c["quantity_gallons"] = Num(5 * QScale)
          /\ r.c["quantity_drums"] = Num(3 * QScale)
          /\ r.c["quantity_pounds"] = Num(50 * QScale)
          /\ r.c["total_quantity_equivalent"] = Num(176 * TScale)

\* ----------------------------------------------------- C4: the outlier fence

\* The totals of the rows of a table, in row order.
C4_Totals(tbl) == ColumnValues(tbl, "total_quantity_equivalent")

\* A total q lies in [Q1 - 1.5*IQR, Q3 + 1.5*IQR], Q1 and Q3 the quartiles of
\* the totals of tbl; four times a quartile is Q1x4 or Q3x4, so that the
\* comparison is made on eight times each side.
C4_InsideFence(tbl, q) ==
    LET Q1x4 == quantile_x4(C4_Totals(tbl), 1)
        Q3x4 == quantile_x4(C4_Totals(tbl), 3)
    IN  /\ 2 * Q1x4 - 3 * (Q3x4 - Q1x4) <= 8 * q
        /\ 8 * q <= 2 * Q3x4 + 3 * (Q3x4 - Q1x4)

\* The totals of a table, as whole gallons.
C4_Gallons(tbl) ==
    {r.c["total_quantity_equivalent"].n \div TScale : r \in RowsOf(tbl)}

\* C4: remove_outliers keeps exactly the rows whose total lies in the closed
\* interval [Q1 - 1.5*IQR, Q3 + 1.5*IQR] of the quartiles of the rows it is
\* called on (those the year filter and the imputation left), in their
\* order; on the totals 1, 2, 3, 4, 100 the quartiles are 2 and 4, the fence
\* is [-1, 7], and the rows kept are those of 1, 2, 3 and 4.
C4_OutliersOutsideClosedFence ==
    /\ pc = "create_derived_features" /\ args.remove_outliers_flag
       => df.rows
            = SelectSeq(before.rows,
                  LAMBDA r : C4_InsideFence(
                                 before, r.c["total_quantity_equivalent"].n))
    /\ pc = "create_derived_features" /\ args.remove_outliers_flag
          /\ file = ExampleFile
       => /\ C4_Gallons(before) = {1, 2, 3, 4, 100}
          /\ quantile_x4(C4_Totals(before), 1) = 4 * 2 * TScale
          /\ quantile_x4(C4_Totals(before), 3) = 4 * 4 * TScale
          /\ lower_bound_x8(C4_Totals(before)) = 8 * (-1) * TScale
          /\ upper_bound_x8(C4_Totals(before)) = 8 * 7 * TScale
          /\ C4_Gallons(df) = {1, 2, 3, 4}

\* remove_outliers has run on the rows the year filter left of a file of
\* 1, 1, 1 and 100 gallons whose first row is of 2023: the quartiles of the
\* three rows left put 100 inside the fence, those of the four rows of the
\* file would not, and the row of 100 gallons is kept.
C4_FenceOfRowsPresent ==
    /\ pc = "create_derived_features"
    /\ args.remove_outliers_flag /\ args.filter_timeframe
    /\ Len(file.rows) = 4
    /\ file.rows[1].c[H_RD] = DateText(2023, 1, 1, 6, 6, 43830)
    /\ \A i \in 2..4 : file.rows[i].c[H_RD] = BaseRow[H_RD]
    /\ \A i \in 1..3 : file.rows[i].c[H_GAL] = Str(<<"1">>)
    /\ file.rows[4].c[H_GAL] = Str(<<"1","0","0">>)
    /\ Len(before.rows) = 3
    /\ C4_Gallons(df) = {1, 100}

\* ------------------------------------- C11: clean_column_names is idempotent

\* The canonical names the rename table produces.
C11_CanonicalNames == {p[2] : p \in column_mapping}

\* C11: clean_column_names applied to its own output changes no column name
\* (nor anything else of the table), whether the raw headers were in the
\* rename table or not; every canonical name of the rename table, and every
\* name once cleaned, is cleaned to itself (a fact of the tables alone, looked
\* at once the step has run on a file without rows).
C11_CleanColumnNamesIdempotent ==
    pc = "parse_datetime_columns" =>
        /\ LET again == clean_column_names(df)
           IN  again.cols = df.cols /\ again = df
        /\ df.rows = <<>> =>
              /\ \A n \in C11_CanonicalNames : CleanName(n) = n
              /\ \A p \in Spelling :
                    CleanName(CleanName(p[1])) = CleanName(p[1])

\* clean_column_names has run on a file with headers of the rename table
\* and the header 'Incident ID/Ref', which is not in it; the names it gave
\* are those a second application gives.
C11_MappedAndUnmappedCleaned ==
    /\ pc = "parse_datetime_columns"
    /\ {H_STATE, H_TOWN, H_REF} \subseteq before.cols
    /\ {"state", "town", "incident_id_ref"} \subseteq df.cols
    /\ H_REF \notin {p[1] : p \in column_mapping}
    /\ clean_column_names(df).cols = df.cols

\* ---------------------------------------------- C12: the order of the stages

\* The steps of the Quality Filter: year filter, imputation, outlier removal.
C12_QualityFilterSteps ==
    {"filter_research_timeframe", "handle_missing_values", "remove_outliers"}

\* Every step of the Categorizer has acted on a table: the categories of
\* the substance and cause columns it has, and the region.
C12_CategorizerDone(tbl) ==
    /\ HasCol(tbl, "substance") => HasCol(tbl, "substance_category")
    /\ HasCol(tbl, "cause") => HasCol(tbl, "cause_category")
    /\ HasCol(tbl, "region")

\* C12: the stages run in the order Schema Normalizer, Type/Unit
\* Normalizer, Categorizer, Quality Filter, each complete before the next
\* starts: whenever a step of the Quality Filter is the next to run, column
\* names are clean, the dates and quantities are normalised, and every
\* Categorizer step (substance category, cause category, region) has run.
C12_StagesInOrder ==
    pc \in C12_QualityFilterSteps =>
        /\ clean_column_names(df).cols = df.cols
        /\ HasCol(df, "release_year")
        /\ HasCol(df, "total_quantity_equivalent")
        /\ C12_CategorizerDone(df)

\* ---------------------------------------------------- C13: a failed load

\* The files that do not load: the missing one and the one that is no CSV.
C13_BadFiles == {NoFile, UnparsableFile}

\* C13: on a file that is missing or cannot be parsed, load_data and
\* process_all raise at once: the processor goes from idle to the raised
\* exception of the load and nowhere else, no stage runs, and df and
\* cleaned_df stay unset; and an exception of the load is raised on such a
\* file only.
C13_LoadFailureAborts ==
    /\ file \in C13_BadFiles
       => /\ pc \in {"idle", "raised"}
          /\ pc = "raised" =>
                raised = IF file = NoFile THEN "FileNotFoundError"
                         ELSE "ParserError"
          /\ df = NoDf
          /\ cleaned_df = NoDf
    /\ raised \in {"FileNotFoundError", "ParserError"}
       => file \in C13_BadFiles

\* The load of the unparsable file has raised, leaving df and cleaned_df
\* unset.
C13_UnparsableFileRaised ==
    /\ file = UnparsableFile
    /\ pc = "raised"
    /\ raised = "ParserError"
    /\ df = NoDf
    /\ cleaned_df = NoDf

\* ------------------------------------- C15: calendar fields of a null release

C15_CalendarFields ==
    {"release_year", "release_month", "release_day", "release_hour",
     "release_dayofweek", "release_quarter"}

\* The positions of process_all at which parse_datetime_columns has run.
C15_AfterParse ==
    {"clean_numeric_columns", "clean_categorical_columns",
     "filter_research_timeframe", "handle_missing_values", "remove_outliers",
     "create_derived_features", "store", "validate_data_quality", "done"}

\* Every row of tbl with a null release_datetime has its six calendar
\* fields null.
C15_NullTogether(tbl) ==
    \A i \in 1..Len(tbl.rows) :
        isna(tbl.rows[i].c["release_datetime"])
        => \A f \in C15_CalendarFields : isna(tbl.rows[i].c[f])

\* C15: after parse_datetime_columns, at every later step of process_all
\* and in the table it returns, under every combination of the flags, a
\* record whose release_datetime is null has all six calendar fields null.
C15_CalendarNullWhereDatetimeNull ==
    pc \in C15_AfterParse => C15_NullTogether(df)

\* C15, the part that holds: up to the start of handle_missing_values the
\* calendar fields of a null release_datetime are all null, and with
\* filter_timeframe=True they are so in the returned table too.
C15_NullTogetherBeforeImputation ==
    /\ pc \in {"clean_numeric_columns", "clean_categorical_columns",
               "filter_research_timeframe", "handle_missing_values"}
       => C15_NullTogether(df)
    /\ pc \in C15_AfterParse /\ args.filter_timeframe
       => C15_NullTogether(df)

\* ------------------------------------------------- C16: the six region labels

C16_RegionLabels ==
    {"Eastern Connecticut", "Western Connecticut", "Central Connecticut",
     "Northern Connecticut", "Southern Connecticut", "Other Connecticut"}

\* C16: every row of the table process_all returns has a region that is one
\* of the six labels, and a row whose town was missing in the file has
\* 'Other Connecticut' (never the 'Unknown' of _assign_region).
C16_RegionIsOneOfSix ==
    pc = "done" =>
        \A r \in RowsOf(cleaned_df) :
            /\ r.c["region"].t = "l"
            /\ r.c["region"].l \in C16_RegionLabels
            /\ IsMissingText(file.rows[r.idx + 1].c[H_TOWN])
               => r.c["region"] = Lab("Other Connecticut")

\* process_all has returned a row whose town was missing in the file, with
\* region 'Other Connecticut', next to a row of an Eastern town.
C16_MissingTownReturnedAsOther ==
    /\ pc = "done"
    /\ \E r \in RowsOf(cleaned_df) :
          /\ IsMissingText(file.rows[r.idx + 1].c[H_TOWN])
          /\ r.c["town"] = UnknownText
          /\ r.c["region"] = Lab("Other Connecticut")
    /\ \E r \in RowsOf(cleaned_df) : r.c["region"] = Lab("Eastern Connecticut")

\* ------------------------------------------ C17: town and state upper, trimmed

\* Every non-null town and state of tbl is a text equal to its own
\* upper-case form without leading or trailing whitespace.
C17_UpperTrimmed(tbl) ==
    \A r \in RowsOf(tbl) :
        \A col \in {"town", "state"} \cap tbl.cols :
            ~isna(r.c[col])
            => /\ r.c[col].t = "s"
               /\ r.c[col].s = upper(strip(r.c[col].s))

\* C17: in the table process_all returns every non-null town and state is
\* upper-cased and trimmed, the town given to a record whose town was
\* missing in the file included.
C17_TownStateUpperTrimmed ==
    pc = "done" => C17_UpperTrimmed(cleaned_df)

\* C17, the part that holds: town and state are upper-cased and trimmed
\* when clean_categorical_columns has run, up to the imputation.
C17_UpperTrimmedBeforeImputation ==
    pc \in {"filter_research_timeframe", "handle_missing_values"}
    => C17_UpperTrimmed(df)

\* -------------------------------------------- C18: imputation of missing values

C18_Categorical == {"town", "substance", "cause", "responsible_party"}
C18_Numeric == {"release_hour", "release_year"}

\* The rows of tbl whose cell in col is not null.
C18_Present(tbl, col) == {i \in 1..Len(tbl.rows) : ~isna(tbl.rows[i].c[col])}

\* The value, among the non-null cells of col, that has exactly k of the
\* others before it when they are ordered by value, ties by row.
C18_Ranked(tbl, col, k) ==
    LET P == C18_Present(tbl, col)
        v(i) == tbl.rows[i].c[col].n
        i == CHOOSE x \in P :
                 Cardinality({y \in P : v(y) < v(x) \/ (v(y) = v(x) /\ y < x)}) = k
    IN  v(i)

\* The median of the non-null cells of col over the rows of tbl: the middle
\* value, or the mean of the two middle values; null when there is none.
C18_Median(tbl, col) ==
    LET n == Cardinality(C18_Present(tbl, col))
    IN  IF n = 0 THEN Null
        ELSE Num((C18_Ranked(tbl, col, (n - 1) \div 2)
                  + C18_Ranked(tbl, col, n \div 2)) \div 2)

\* C18: when handle_missing_values has run, the table has the same rows;
\* in town, substance, cause and responsible_party every null has become
\* 'Unknown'; in release_hour and release_year every null has become the
\* median of the column's non-null values over the rows the step started
\* with (those left by the year filter); non-null cells are as they were;
\* and no null is left in these columns when the numeric column had a
\* non-null value.
C18_NullsImputed ==
    pc = "remove_outliers" =>
        /\ Len(df.rows) = Len(before.rows)
        /\ \A i \in 1..Len(df.rows) :
              LET c == df.rows[i].c
                  b == before.rows[i].c
              IN  /\ df.rows[i].idx = before.rows[i].idx
                  /\ \A col \in C18_Categorical \cap before.cols :
                        /\ c[col] = IF isna(b[col]) THEN UnknownText ELSE b[col]
                        /\ ~isna(c[col])
                  /\ \A col \in C18_Numeric \cap before.cols :
                        /\ c[col] = IF isna(b[col]) THEN C18_Median(before, col)
                                    ELSE b[col]
                        /\ C18_Present(before, col) # {} => ~isna(c[col])

\* handle_missing_values has run, without year filter, on the three rows
\* of MedianFile: the row without release date has the year 2020.5 and the
\* hour 9, the medians of the two others, and the row without town has
\* 'Unknown'.
C18_MedianOfTwoYearsImputed ==
    /\ pc = "remove_outliers"
    /\ file = MedianFile
    /\ Len(df.rows) = 3
    /\ isna(before.rows[1].c["release_year"])
    /\ df.rows[1].c["release_year"] = Num(2020 * QScale + QScale \div 2)
    /\ df.rows[1].c["release_hour"] = Num(9 * QScale)
    /\ isna(before.rows[2].c["town"])
    /\ df.rows[2].c["town"] = UnknownText

\* ------------------------------------------------ C19: which steps remove rows

\* The positions reached by a step that is no filter: after
\* clean_column_names, parse_datetime_columns, clean_numeric_columns,
\* clean_categorical_columns, handle_missing_values,
\* create_derived_features, and the two closing steps.
C19_AfterPlainStep ==
    {"parse_datetime_columns", "clean_numeric_columns",
     "clean_categorical_columns", "filter_research_timeframe",
     "remove_outliers", "store", "validate_data_quality", "done"}

\* The positions reached by the year filter and by the outlier removal.
C19_AfterFilterStep == {"handle_missing_values", "create_derived_features"}

\* The index labels of the rows of a table, in row order.
C19_Index(tbl) == AsTuple([i \in 1..Len(tbl.rows) |-> tbl.rows[i].idx],
                          Len(tbl.rows))

\* C19: a step that is no filter leaves the number and the order of the
\* rows as they were; the year filter and the outlier removal return rows
\* of the table they started with, in their order, and all of them when
\* their flag is False; clean_column_names leaves every cell as it was,
\* under its new name; and with both flags False process_all returns as
\* many rows as the file has, in the order of the file.
C19_RowsChangeOnlyInFilters ==
    /\ pc \in C19_AfterPlainStep => C19_Index(df) = C19_Index(before)
    /\ pc \in C19_AfterFilterStep
       => /\ RowsOf(df) \subseteq RowsOf(before)
          /\ \A i, j \in 1..Len(df.rows) :
                i < j => df.rows[i].idx < df.rows[j].idx
    /\ pc = "handle_missing_values" /\ ~args.filter_timeframe => df = before
    /\ pc = "create_derived_features" /\ ~args.remove_outliers_flag
       => df = before
    /\ pc = "parse_datetime_columns"
       => \A i \in 1..Len(df.rows) :
             \A h \in before.cols :
                 df.rows[i].c[CleanName(h)] = before.rows[i].c[h]
    /\ ( /\ pc = "done"
         /\ ~args.filter_timeframe
         /\ ~args.remove_outliers_flag )
       => C19_Index(cleaned_df) = C19_Index(file)

\* process_all with both flags False has returned both rows of a file that
\* has a row of the year 2023, outside the year bounds.
C19_AllRowsReturnedWithoutFilters ==
    /\ pc = "done"
    /\ ~args.filter_timeframe
    /\ ~args.remove_outliers_flag
    /\ Len(file.rows) = 2
    /\ Len(cleaned_df.rows) = 2
    /\ \E r \in RowsOf(cleaned_df) : r.c["release_year"] = Num(2023 * QScale)

\* --------------------------------------- C14: aggregation over an empty table

\* C14: when the cleaned table has no rows, the report script (on the saved
\* file) and the dashboard summary (on the table) end without exception,
\* with nothing counted.
C14_EmptyTableAggregatesWithoutRaising ==
    ( /\ pc \in {"reported", "dashboard"}
      /\ cleaned_df.rows = <<>> )
    => /\ report.raised = "none"
       /\ report.total_incidents = 0

\* C14, the part that holds: on an empty cleaned table the report script
\* gets through the town and hour analyses and counts no substance
\* category before it stops at the share of Petroleum Products.
C14_EmptyTableCountsNothing ==
    ( /\ pc = "reported"
      /\ cleaned_df.rows = <<>> )
    => /\ report.raised = "ZeroDivisionError"
       /\ report.total_incidents = 0
       /\ report.substance_counts = <<>>

\* ------------------------------------------------ C20: shares sum to the total

\* The sum of the values of f over the keys in S.
RECURSIVE C20_Sum(_, _)
C20_Sum(f, S) ==
    IF S = {} THEN 0
    ELSE LET k == CHOOSE x \in S : TRUE
         IN  f[k] + C20_Sum(f, S \ {k})

\* The counts sum to the total, and the printed shares, in tenths of a
\* percent, sum to 100% up to the rounding of each (half a tenth).
C20_SumsToTotal(counts, shares, total) ==
    /\ C20_Sum(counts, DOMAIN counts) = total
    /\ DOMAIN shares = DOMAIN counts
    /\ LET s == C20_Sum(shares, DOMAIN shares)
           n == Cardinality(DOMAIN shares)
       IN  /\ 2 * (s - 1000) <= n
           /\ 2 * (1000 - s) <= n

\* C20: when the report script has run on the saved file of a cleaned table
\* with rows and with the two category columns, the total it divides by is
\* the number of rows of that table, the counts of the substance
\* categories sum to it and so do the counts of the cause categories, and
\* the printed shares of each sum to 100% up to rounding.
C20_SharesSumToTotal ==
    ( /\ pc = "reported"
      /\ cleaned_df.rows # <<>>
      /\ {"substance_category", "cause_category"} \subseteq cleaned_df.cols )
    => /\ report.raised = "none"
       /\ report.total_incidents = Len(cleaned_df.rows)
       /\ C20_SumsToTotal(report.substance_counts, report.substance_shares,
                          report.total_incidents)
       /\ C20_SumsToTotal(report.cause_counts, report.cause_shares,
                          report.total_incidents)

\* The report script has run on three records of three substance
\* categories, 'Unknown' among them: each has the printed share 33.3%.
C20_ThreeCategoriesOfOneThird ==
    /\ pc = "reported"
    /\ report.raised = "none"
    /\ report.total_incidents = 3
    /\ DOMAIN report.substance_counts =
          {Str(label_chars("Petroleum Products")), Str(label_chars("Other")),
           Str(label_chars("Unknown"))}
    /\ \A v \in DOMAIN report.substance_shares :
          /\ report.substance_counts[v] = 1
          /\ report.substance_shares[v] = 333

\* ----------------------------------------- C21: the cleaned table through CSV

C21_Columns ==
    {"town", "substance_category", "cause_category", "time_period", "region",
     "incident_severity"}

\* The cell a text or a label of the table is when it is read back as it
\* was written.
C21_AsText(cell) ==
    IF cell.t = "l" THEN Str(label_chars(cell.l)) ELSE cell

\* The table written by save_cleaned_data and read back has as many rows
\* as tbl, and in the columns cols every value of tbl that is not null is
\* read back as the same text.
C21_Preserved(tbl, back, cols) ==
    /\ Len(back.rows) = Len(tbl.rows)
    /\ \A i \in 1..Len(tbl.rows) :
          \A col \in cols \cap tbl.cols :
              ~isna(tbl.rows[i].c[col])
              => back.rows[i].c[col] = C21_AsText(tbl.rows[i].c[col])

\* C21: the table process_all returned, written with save_cleaned_data and
\* read back with the report script's read_csv, has the same number of
\* rows and, in town and the five category columns, the same value
\* wherever the value was not null.
C21_RoundTripPreserves ==
    pc = "saved" =>
        C21_Preserved(cleaned_df, read_csv(clean_csv), C21_Columns)

\* C21, the part that holds: the row count and the five category columns
\* come back as written.
C21_LabelsSurviveRoundTrip ==
    pc = "saved" =>
        C21_Preserved(cleaned_df, read_csv(clean_csv), C21_Columns \ {"town"})

\* ------------------------------------------ C22: a run from the raw file again

\* A second call has ended, with the arguments of the first.
C22_SecondEnded(fresh) ==
    /\ pc \in {"done", "raised"}
    /\ first # NoRun
    /\ first.fresh = fresh
    /\ args = first.args

C23_BeforeStore ==
    {"clean_column_names", "parse_datetime_columns", "clean_numeric_columns",
     "clean_categorical_columns", "filter_research_timeframe",
     "handle_missing_values", "remove_outliers", "create_derived_features",
     "store"}

\* C23: when process_all has raised, cleaned_df is unset, a
\* save_cleaned_data that follows writes no file and a get_data_summary
\* that follows returns None, neither of them raising; and cleaned_df is
\* unset as long as a step of process_all is still to run.
C23_NothingPublishedOnFailure ==
    /\ raised # "none"
       => /\ cleaned_df = NoDf
          /\ clean_csv = NoFile
          /\ pc \in {"raised", "not_saved", "summarised"}
          /\ pc = "summarised"
             => report.raised = "none" /\ report.result = NoSummary
    /\ pc \in C23_BeforeStore \cup {"validate_data_quality"}
       => raised = "none" /\ (pc \in C23_BeforeStore => cleaned_df = NoDf)

\* C23, the part that holds: it is so whenever the exception is not the
\* KeyError of validate_data_quality, which runs on a table that has the
\* columns town and total_quantity_equivalent of create_derived_features.
C23_NothingPublishedBeforeStore ==
    ( /\ raised # "none"
      /\ ~(raised = "KeyError" /\ {"town", "total_quantity_equivalent"} \subseteq df.cols
           /\ HasCol(df, "region")) )
    => /\ cleaned_df = NoDf
       /\ clean_csv = NoFile
       /\ pc \in {"raised", "not_saved", "summarised"}
       /\ pc = "summarised"
          => report.raised = "none" /\ report.result = NoSummary

\* ------------------------------------------------------ C24: incident severity

C24_Labels == <<"Unknown/Minimal", "Low", "Medium", "High", "Very High">>

\* The place of a label in the order of C24_Labels.
C24_Rank(l) == CHOOSE i \in 1..5 : C24_Labels[i] = l

\* The label C24 gives a quantity that is null, zero or positive, in
\* units of 1 / TScale.
C24_Label(q) ==
    IF isna(q) THEN "Unknown/Minimal"
    ELSE CASE q.n = 0 -> "Unknown/Minimal"
           [] q.n > 0 /\ q.n < 10 * TScale -> "Low"
           [] q.n >= 10 * TScale /\ q.n < 100 * TScale -> "Medium"
           [] q.n >= 100 * TScale /\ q.n < 1000 * TScale -> "High"
           [] q.n >= 1000 * TScale -> "Very High"

\* C24: _categorize_severity returns one of the five labels; for a null, a
\* zero or a positive quantity it is the label of the quantity's interval;
\* and no smaller positive quantity gets a higher label.
C24_SeverityQuantized ==
    (fnKind = "severity" /\ fnRes # NoRes) =>
        /\ \E i \in 1..5 : fnRes.v = C24_Labels[i]
        /\ (isna(fnArg) \/ fnArg.n >= 0) => fnRes.v = C24_Label(fnArg)
        /\ (~isna(fnArg) /\ fnArg.n > 0) =>
              \A q \in Samples("severity") :
                  (~isna(q) /\ q.n > 0 /\ q.n <= fnArg.n)
                  => C24_Rank(_categorize_severity(q)) <= C24_Rank(fnRes.v)

\* _categorize_severity has returned 'Medium' for exactly 10.
C24_TenIsMedium ==
    /\ fnKind = "severity"
    /\ fnArg = Num(10 * TScale)
    /\ fnRes = Res("severity", "Medium")

\* C24 in the pipeline: every row of the table process_all returns has the
\* incident_severity that the label of its total_quantity_equivalent is.
C24_SeverityOfReturnedRows ==
    pc = "done" =>
        \A r \in RowsOf(cleaned_df) :
            r.c["incident_severity"] =
                Lab(C24_Label(r.c["total_quantity_equivalent"]))

\* --------------------------------------------- C25: peak hour and top five hours

\* The report script has run through its hour analysis.
C25_HoursAnalysed ==
    /\ pc = "reported"
    /\ report.raised \in {"none", "ZeroDivisionError"}
    /\ DOMAIN report.hourly_counts # {}

\* The peak hour is an hour from 0 to 23 that no hour exceeds in count, the
\* earliest of those.
C25_PeakIsEarliestMaximum ==
    LET hc == report.hourly_counts
        p == report.peak_hour
    IN  /\ p \in DOMAIN hc
        /\ p.n >= 0 /\ p.n <= 23 * QScale
        /\ \A g \in DOMAIN hc :
              /\ hc[g] <= hc[p]
              /\ hc[g] = hc[p] => p.n <= g.n

\* C25: the peak hour is the earliest hour of the highest count, and the
\* hours listed as the top five are five hours (all, when there are fewer)
\* such that no hour left out has a strictly higher count than one listed.
C25_PeakAndTopFiveHours ==
    C25_HoursAnalysed =>
        /\ C25_PeakIsEarliestMaximum
        /\ LET hc == report.hourly_counts
               listed == report.listed_hours
           IN  /\ listed \subseteq DOMAIN hc
               /\ Cardinality(listed) =
                     IF Cardinality(DOMAIN hc) < 5 THEN Cardinality(DOMAIN hc)
                     ELSE 5
               /\ \A h \in listed : \A u \in (DOMAIN hc) \ listed :
                     hc[u] <= hc[h]

\* C25, the part that holds: the peak hour.
C25_PeakHourHolds ==
    C25_HoursAnalysed => C25_PeakIsEarliestMaximum

\* ------------------------------------- C27: what the narrative calls confirmed

\* The most frequent value of a value_counts, as the first line of the
\* printed table: a value no other value exceeds in count.
C27_MostFrequent(counts, v) ==
    /\ v \in DOMAIN counts
    /\ \A w \in DOMAIN counts : counts[w] <= counts[v]

\* The report script has printed at least one of its confirmations.
C27_Confirmed ==
    /\ pc = "reported"
    /\ "confirmed" \in DOMAIN report
    /\ report.confirmed # {}

\* C27: a finding is printed as confirmed only when the loaded data supports
\* it: petroleum dominance only if Petroleum Products is the most frequent
\* substance category, motor vehicle accidents only if Motor Vehicle
\* Accident is the most frequent cause category, the top towns and the
\* reproduction of all findings only if the five expected towns are all
\* among the top ten towns.
C27_ConfirmedOnlyWhenSupported ==
    C27_Confirmed =>
        /\ "petroleum" \in report.confirmed =>
              C27_MostFrequent(report.substance_counts, Str(label_chars("Petroleum Products")))
        /\ "motor vehicle" \in report.confirmed =>
              C27_MostFrequent(report.cause_counts, Str(label_chars("Motor Vehicle Accident")))
        /\ report.confirmed \cap {"top towns", "all findings"} # {} =>
              report.found_expected = expected_towns

\* C27, what holds of the confirmations: they are printed whenever the
\* script gets past the section that prints them, whatever the counts are.
C27_ConfirmedWheneverReached ==
    (pc = "reported" /\ "confirmed" \in DOMAIN report) =>
        /\ report.raised = "none" =>
              report.confirmed = {"petroleum", "motor vehicle", "top towns", "all findings"}
        /\ report.found_expected = expected_towns \cap report.top_towns

\* ------------------------------------ C26: a second call on the same processor

\* process_all has returned a second time on the same processor, called
\* with the arguments of the first call.
C26_SecondReturned ==
    /\ C22_SecondEnded(FALSE)
    /\ pc = "done"

\* C26: the second call of process_all on a processor whose data is loaded
\* and processed returns the table of the first call: no further row is
\* dropped (remove_outliers removes nothing from its own output) and no
\* cell changes.
C26_SecondCallReturnsSameTable ==
    C26_SecondReturned => cleaned_df = first.table

\* C26, what holds of the second call: it does not raise, it keeps the
\* columns and adds no row; without the outlier step it keeps every row;
\* and where it keeps every row, the cells that change are in the columns
\* town, substance_category and cause_category only.
C26_SecondCallKeepsStructure ==
    LET Idx(tb) == {tb.rows[i].idx : i \in 1..Len(tb.rows)}
        fixed == cleaned_df.cols \ {"town", "substance_category", "cause_category"}
    IN  /\ ~(C22_SecondEnded(FALSE) /\ pc = "raised")
        /\ C26_SecondReturned =>
              /\ cleaned_df.cols = first.table.cols
              /\ Idx(cleaned_df) \subseteq Idx(first.table)
              /\ ~args.remove_outliers_flag => Idx(cleaned_df) = Idx(first.table)
              /\ Len(cleaned_df.rows) = Len(first.table.rows) =>
                    \A i \in 1..Len(cleaned_df.rows) : \A c \in fixed :
                        cleaned_df.rows[i].c[c] = first.table.rows[i].c[c]
====
